---- MODULE Spec2Model ----
(***************************************************************************)
(* Model of the Valorant scheduling bot: the availability store, the guild *)
(* config store, the weekly schedule builder and the command handlers that *)
(* write to the stores.                                                    *)
(*                                                                         *)
(* Strings that the code transforms (day names, team labels, time labels)  *)
(* are sequences of one-character strings, so that lower(), upper(),       *)
(* strip(), startswith() and split() are computed, not assumed.  Opaque    *)
(* strings (display names, map names, time zones) are TLA+ strings.        *)
(***************************************************************************)
EXTENDS Integers, Sequences, FiniteSets, TLC

\* ------------------------------------------------------------------------
\* Bounds of the model
\* ------------------------------------------------------------------------

\* highest user id that acts in the store-centred specification
NumUsers == 2

\* most users of one team that a loaded availability file holds
MaxTeam == 5

\* most users with roles that a loaded availability file holds
MaxRoster == 7

\* ------------------------------------------------------------------------
\* Strings
\* ------------------------------------------------------------------------

\* Python None where a string is expected (no string has a 6-letter character)
None == <<"<None>">>

AlphaLower == <<"a","b","c","d","e","f","g","h","i","j","k","l","m",
                "n","o","p","q","r","s","t","u","v","w","x","y","z">>

AlphaUpper == <<"A","B","C","D","E","F","G","H","I","J","K","L","M",
                "N","O","P","Q","R","S","T","U","V","W","X","Y","Z">>

Digits == <<"0","1","2","3","4","5","6","7","8","9">>

Range(s) == { s[i] : i \in DOMAIN s }

\* upper-case letter -> lower-case letter
LowerTable ==
    [c \in Range(AlphaUpper) |->
        AlphaLower[CHOOSE i \in DOMAIN AlphaUpper : AlphaUpper[i] = c]]

\* lower-case letter -> upper-case letter
UpperTable ==
    [c \in Range(AlphaLower) |->
        AlphaUpper[CHOOSE i \in DOMAIN AlphaLower : AlphaLower[i] = c]]

LowerChar(c) == IF c \in DOMAIN LowerTable THEN LowerTable[c] ELSE c

UpperChar(c) == IF c \in DOMAIN UpperTable THEN UpperTable[c] ELSE c

\* str.lower()
Lower(s) == [i \in DOMAIN s |-> LowerChar(s[i])]

\* str.upper()
Upper(s) == [i \in DOMAIN s |-> UpperChar(s[i])]

\* str.strip(): drops leading and trailing blanks
RECURSIVE Strip(_)
Strip(s) ==
    IF s = <<>> THEN s
    ELSE IF Head(s) = " " THEN Strip(Tail(s))
    ELSE IF s[Len(s)] = " " THEN Strip(SubSeq(s, 1, Len(s) - 1))
    ELSE s

\* candidate.startswith(p)
StartsWith(s, p) == Len(p) <= Len(s) /\ SubSeq(s, 1, Len(p)) = p

\* the characters of the model in code-point order
CodeOrder == <<" ", "+", ",", "-", "/">> \o Digits \o <<":">> \o AlphaUpper
             \o <<"_">> \o AlphaLower

\* position of a character in the code-point order
RankTable ==
    [c \in Range(CodeOrder) |-> CHOOSE i \in DOMAIN CodeOrder : CodeOrder[i] = c]

CharRank(c) == IF c \in DOMAIN RankTable THEN RankTable[c] ELSE 0

\* a < b for Python strings (lexicographic, by code point)
RECURSIVE StrLess(_, _)
StrLess(a, b) ==
    IF b = <<>> THEN FALSE
    ELSE IF a = <<>> THEN TRUE
    ELSE IF Head(a) = Head(b) THEN StrLess(Tail(a), Tail(b))
    ELSE CharRank(Head(a)) < CharRank(Head(b))

\* sorted(S) for a set of strings
RECURSIVE SortedStrs(_)
SortedStrs(S) ==
    IF S = {} THEN <<>>
    ELSE LET m == CHOOSE x \in S : \A y \in S : x = y \/ StrLess(x, y)
         IN  <<m>> \o SortedStrs(S \ {m})

\* ------------------------------------------------------------------------
\* storage.py: week days and defaults
\* ------------------------------------------------------------------------

Monday    == <<"m","o","n","d","a","y">>
Tuesday   == <<"t","u","e","s","d","a","y">>
Wednesday == <<"w","e","d","n","e","s","d","a","y">>
Thursday  == <<"t","h","u","r","s","d","a","y">>
Friday    == <<"f","r","i","d","a","y">>
Saturday  == <<"s","a","t","u","r","d","a","y">>
Sunday    == <<"s","u","n","d","a","y">>

WEEK_DAYS == <<Monday, Tuesday, Wednesday, Thursday, Friday, Saturday, Sunday>>

WeekDaySet == Range(WEEK_DAYS)

T1900 == <<"1","9",":","0","0">>
T2000 == <<"2","0",":","0","0">>
W1920 == <<"1","9",":","0","0","-","2","0",":","0","0">>
W2021 == <<"2","0",":","0","0","-","2","1",":","0","0">>

DEFAULT_SCRIM_TIMES ==
    [d \in WeekDaySet |->
        IF d \in {Monday, Tuesday} THEN None
        ELSE IF d \in {Friday, Saturday} THEN T2000 ELSE T1900]

\* default premier windows that start on Friday
PremierWindowsFromFriday ==
    [d \in WeekDaySet |->
        IF d \in {Friday, Saturday} THEN W2021
        ELSE IF d = Sunday THEN W1920 ELSE None]

DEFAULT_PREMIER_WINDOWS ==
    [d \in WeekDaySet |->
        IF d \in {Monday, Tuesday} THEN None
        ELSE IF d \in {Friday, Saturday} THEN W2021 ELSE W1920]

DEFAULT_PRACTICE_TIMES == [d \in WeekDaySet |-> None]

\* ------------------------------------------------------------------------
\* bot.py: parsing helpers
\* ------------------------------------------------------------------------

\* s.split(sep) for a one-character separator
RECURSIVE Split(_, _)
Split(s, sep) ==
    IF \A i \in DOMAIN s : s[i] # sep THEN <<s>>
    ELSE LET i == CHOOSE k \in DOMAIN s :
                    s[k] = sep /\ \A j \in 1..(k - 1) : s[j] # sep
         IN  <<SubSeq(s, 1, i - 1)>> \o Split(SubSeq(s, i + 1, Len(s)), sep)

\* a normalize_day that forgets .lower()
NormalizeCaseSensitive(day) ==
    LET d    == Strip(day)
        hits == { i \in DOMAIN WEEK_DAYS : StartsWith(WEEK_DAYS[i], d) }
    IN  IF hits = {} THEN None
        ELSE WEEK_DAYS[CHOOSE i \in hits : \A j \in hits : i <= j]

\* a normalize_day that returns the word it was given, not the candidate
NormalizeKeepsWord(day) ==
    LET d    == Lower(Strip(day))
        hits == { i \in DOMAIN WEEK_DAYS : StartsWith(WEEK_DAYS[i], d) }
    IN  IF hits = {} THEN None ELSE d

normalize_day(day) ==
    LET d    == Lower(Strip(day))
        hits == { i \in DOMAIN WEEK_DAYS : StartsWith(WEEK_DAYS[i], d) }
    IN  IF hits = {} THEN None
        ELSE WEEK_DAYS[CHOOSE i \in hits : \A j \in hits : i <= j]

\* the list of canonical days named by a comma-separated string
parse_days(raw) ==
    LET segs  == Split(raw, ",")
        strip == [i \in DOMAIN segs |-> Strip(segs[i])]
        kept  == SelectSeq(strip, LAMBDA x : x # <<>>)
        norm  == [i \in DOMAIN kept |-> normalize_day(kept[i])]
    IN  SelectSeq(norm, LAMBDA x : x # None)

\* the digits of an int() literal: blanks stripped, one optional sign removed
IntBody(s) ==
    LET t == Strip(s)
    IN  IF t # <<>> /\ Head(t) \in {"+", "-"} THEN Tail(t) ELSE t

\* int(s) succeeds
IsIntStr(s) ==
    /\ IntBody(s) # <<>>
    /\ \A i \in DOMAIN IntBody(s) : \E k \in DOMAIN Digits : Digits[k] = IntBody(s)[i]

RECURSIVE DigitsVal(_)
DigitsVal(s) ==
    IF s = <<>> THEN 0
    ELSE 10 * DigitsVal(SubSeq(s, 1, Len(s) - 1))
         + (CHOOSE k \in DOMAIN Digits : Digits[k] = s[Len(s)]) - 1

\* int(s), for a string on which int() succeeds
IntVal(s) ==
    LET t == Strip(s)
    IN  IF t # <<>> /\ Head(t) = "-" THEN 0 - DigitsVal(IntBody(s))
        ELSE DigitsVal(IntBody(s))

\* result of _parse_hhmm_to_time when the label is rejected
NoTime == <<>>

\* <<hour, minute>> of a 'HH:MM' label, NoTime on error
_parse_hhmm_to_time(label) ==
    LET parts == Split(label, ":")
    IN  IF Len(parts) # 2 THEN NoTime
        ELSE IF ~(IsIntStr(parts[1]) /\ IsIntStr(parts[2])) THEN NoTime
        ELSE IF ~(/\ 0 <= IntVal(parts[1]) /\ IntVal(parts[1]) <= 23
                  /\ 0 <= IntVal(parts[2]) /\ IntVal(parts[2]) <= 59) THEN NoTime
        ELSE <<IntVal(parts[1]), IntVal(parts[2])>>

\* the words that switch an activity off in the /config commands
OffWords == { <<"o","f","f">>, <<"n","o","n","e">>,
              <<"d","i","s","a","b","l","e">> }

\* a role id that is not set (None; 0 is falsy in the same places)
NoId == 0

TeamA == <<"A">>
TeamB == <<"B">>

\* TEAM_A_ROLE_ID / TEAM_B_ROLE_ID of the environment: not set
env_team_roles == <<NoId, NoId>>

\* x or y, for role ids
OrId(x, y) == IF x # NoId THEN x ELSE y

infer_team(member_role_ids, fallback, configured_roles, env_roles) ==
    IF fallback # None /\ fallback # <<>> THEN Upper(fallback)
    ELSE LET team_a_id == OrId(configured_roles.A, env_roles[1])
             team_b_id == OrId(configured_roles.B, env_roles[2])
         IN  IF team_a_id # NoId /\ team_a_id \in member_role_ids THEN TeamA
             ELSE IF team_b_id # NoId /\ team_b_id \in member_role_ids THEN TeamB
             ELSE None

\* ------------------------------------------------------------------------
\* storage.py: AvailabilityStore
\*
\* The store is the dict _data["users"] in insertion order: a sequence of
\* entries.  An entry carries the set of keys its dict holds; the value of a
\* key that is not held is the fixed filler of EmptyEntry.
\* ------------------------------------------------------------------------

EmptyEntry(uid) ==
    [id |-> uid, keys |-> {}, display_name |-> None, team |-> None,
     days |-> <<>>, roles |-> <<>>, agents |-> <<>>, timezone |-> None]

\* position of the entry of uid, 0 when there is none
Find(store, uid) ==
    IF \E i \in DOMAIN store : store[i].id = uid
    THEN CHOOSE i \in DOMAIN store : store[i].id = uid
    ELSE 0

\* users.get(key, {})
GetEntry(store, uid) ==
    IF Find(store, uid) = 0 THEN EmptyEntry(uid) ELSE store[Find(store, uid)]

\* users[key] = entry
PutEntry(store, uid, entry) ==
    IF Find(store, uid) = 0 THEN Append(store, entry)
    ELSE [store EXCEPT ![Find(store, uid)] = entry]

\* sorted({day.lower() for day in days})
NormalizedDays(days) == SortedStrs({ Lower(d) : d \in Range(days) })

\* a set_availability that starts from an empty entry instead of the stored
\* one
SetAvailabilityFresh(store, uid, display_name, team, days) ==
    PutEntry(store, uid,
        [EmptyEntry(uid) EXCEPT !.display_name = display_name,
                                !.team = team,
                                !.days = NormalizedDays(days),
                                !.keys = {"display_name", "team", "days",
                                          "roles", "agents"}])

set_availability(store, uid, display_name, team, days) ==
    LET entry == GetEntry(store, uid)
    IN  PutEntry(store, uid,
            [entry EXCEPT !.display_name = display_name,
                          !.team = team,
                          !.days = NormalizedDays(days),
                          !.keys = @ \cup {"display_name", "team", "days",
                                           "roles", "agents"}])

\* a clear_user that drops the whole record
ClearDropsRecord(store, uid) == SelectSeq(store, LAMBDA e : e.id # uid)

clear_user(store, uid) ==
    IF Find(store, uid) = 0 \/ GetEntry(store, uid).keys = {} THEN store
    ELSE [store EXCEPT ![Find(store, uid)] =
            [@ EXCEPT !.days = <<>>, !.keys = @ \cup {"days"}]]

\* info.get("display_name", "Unknown") of an entry without a display name
Unknown == <<"Unknown">>

\* the dict users_for_day builds for one entry
UserInfo(e) ==
    [id |-> e.id,
     display_name |-> IF "display_name" \in e.keys THEN e.display_name ELSE Unknown,
     team |-> e.team, roles |-> e.roles, agents |-> e.agents]

users_for_day(store, day) ==
    LET d    == Lower(day)
        hits == SelectSeq(store, LAMBDA e : \E i \in DOMAIN e.days : e.days[i] = d)
    IN  [i \in DOMAIN hits |-> UserInfo(hits[i])]

get_user_days(store, uid) == GetEntry(store, uid).days

\* a reset_all that removes the records, as the earliest revision did
ResetRemovesRecords(store) == SubSeq(store, 1, 0)

\* the store after reset_all
reset_all(store) ==
    [i \in DOMAIN store |->
        [store[i] EXCEPT !.days = <<>>, !.keys = @ \cup {"days"}]]

\* the number reset_all returns
reset_all_count(store) == Len(store)

set_agents(store, uid, display_name, roles, agents) ==
    LET entry == GetEntry(store, uid)
    IN  PutEntry(store, uid,
            [entry EXCEPT !.display_name = display_name,
                          !.roles = SortedStrs({ Lower(r) : r \in Range(roles) }),
                          !.agents = SortedStrs(Range(agents)),
                          !.keys = @ \cup {"display_name", "days", "team",
                                           "roles", "agents"}])

clear_agents(store, uid) ==
    IF Find(store, uid) = 0 \/ GetEntry(store, uid).keys = {} THEN store
    ELSE [store EXCEPT ![Find(store, uid)] =
            [@ EXCEPT !.roles = <<>>, !.agents = <<>>,
                      !.keys = @ \ {"roles", "agents"}]]

set_user_timezone(store, uid, timezone) ==
    LET entry == GetEntry(store, uid)
    IN  PutEntry(store, uid,
            [entry EXCEPT !.timezone = timezone, !.keys = @ \cup {"timezone"}])

\* ------------------------------------------------------------------------
\* storage.py: GuildConfigStore
\*
\* The store maps a guild id to its config dict; NoGuild stands for a guild
\* id that is not a key of _data.
\* ------------------------------------------------------------------------

Guilds == {1, 2}

NoGuild == [missing |-> TRUE]

\* g.get("locked_lineups", {}) of a guild nobody locked a lineup for
NoLocks == [k \in {} |-> <<>>]

\* the dict _ensure_guild creates for a guild id it has not seen; opt holds
\* the keys that only a setter adds ("reminders_enabled"), and the field of
\* a key that is not there holds the default its getter returns
NewGuild ==
    [announcement_channel_id |-> NoId,
     ping_role_id            |-> NoId,
     team_a_role_id          |-> NoId,
     team_b_role_id          |-> NoId,
     scrim_times             |-> DEFAULT_SCRIM_TIMES,
     premier_windows         |-> DEFAULT_PREMIER_WINDOWS,
     practice_times          |-> DEFAULT_PRACTICE_TIMES,
     scrim_maps              |-> [d \in WeekDaySet |-> None],
     premier_maps            |-> [d \in WeekDaySet |-> None],
     practice_maps           |-> [d \in WeekDaySet |-> None],
     opt                     |-> {},
     reminders_enabled       |-> TRUE,
     locked_lineups          |-> NoLocks]

\* an _ensure_guild that writes the defaults over the entry it finds
EnsureOverwrites(c, g) == [c EXCEPT ![g] = NewGuild]

\* _data after _ensure_guild(guild_id)
_ensure_guild(c, g) == IF c[g] = NoGuild THEN [c EXCEPT ![g] = NewGuild] ELSE c

\* a read that finds every day off in a guild that has no entry yet
GuildDictNoDefaults(c, g) ==
    IF c[g] = NoGuild
    THEN [NewGuild EXCEPT !.scrim_times     = [d \in WeekDaySet |-> None],
                          !.premier_windows = [d \in WeekDaySet |-> None]]
    ELSE c[g]

\* the dict _ensure_guild(guild_id) returns
GuildDict(c, g) == _ensure_guild(c, g)[g]

\* table.get(day.lower())
DayGet(table, day, default) ==
    IF Lower(day) \in DOMAIN table THEN table[Lower(day)] ELSE default

get_scrim_time(c, g, day)     == DayGet(GuildDict(c, g).scrim_times, day, None)
get_premier_window(c, g, day) == DayGet(GuildDict(c, g).premier_windows, day, None)
get_practice_time(c, g, day)  == DayGet(GuildDict(c, g).practice_times, day, None)
get_scrim_map(c, g, day)      == DayGet(GuildDict(c, g).scrim_maps, day, None)
get_premier_map(c, g, day)    == DayGet(GuildDict(c, g).premier_maps, day, None)
get_practice_map(c, g, day)   == DayGet(GuildDict(c, g).practice_maps, day, None)

get_team_roles(c, g) ==
    [A |-> GuildDict(c, g).team_a_role_id, B |-> GuildDict(c, g).team_b_role_id]

\* the key f"{day}_{match_type}" of a locked lineup
LockKey(day, match_type) == Lower(day) \o <<"_">> \o match_type

Premier == <<"p","r","e","m","i","e","r">>

\* player ids of the locked lineup, <<>> standing for None
get_locked_lineup(c, g, day, match_type) ==
    LET locked == GuildDict(c, g).locked_lineups
    IN  IF LockKey(day, match_type) \in DOMAIN locked
        THEN locked[LockKey(day, match_type)] ELSE <<>>

\* _data after a per-day setter, for a day that passed its validation
SetDayField(c, g, field, day, value) ==
    LET e == GuildDict(c, g)
    IN  [_ensure_guild(c, g) EXCEPT ![g] =
            CASE field = "scrim_times"     -> [e EXCEPT !.scrim_times[Lower(day)] = value]
              [] field = "premier_windows" -> [e EXCEPT !.premier_windows[Lower(day)] = value]
              [] field = "practice_times"  -> [e EXCEPT !.practice_times[Lower(day)] = value]
              [] field = "scrim_maps"      -> [e EXCEPT !.scrim_maps[Lower(day)] = value]
              [] field = "premier_maps"    -> [e EXCEPT !.premier_maps[Lower(day)] = value]
              [] field = "practice_maps"   -> [e EXCEPT !.practice_maps[Lower(day)] = value]]

\* a day check that takes every word normalize_day would resolve
ValidDayAbbreviated(day) == normalize_day(day) # None

\* day.lower() in WEEK_DAYS: the check that decides whether a per-day
\* setter raises ValueError
ValidDay(day) == Lower(day) \in WeekDaySet

\* a per-day setter: ValueError (no write) unless day.lower() is a week day;
\* _ensure_guild has run either way
SetDayChecked(c, g, field, day, value) ==
    IF ValidDay(day) THEN SetDayField(c, g, field, day, value)
    ELSE _ensure_guild(c, g)

set_scrim_time(c, g, day, time_str)   == SetDayChecked(c, g, "scrim_times", day, time_str)
set_premier_window(c, g, day, window) == SetDayChecked(c, g, "premier_windows", day, window)
set_practice_time(c, g, day, time_str) == SetDayChecked(c, g, "practice_times", day, time_str)
set_scrim_map(c, g, day, map_name)    == SetDayChecked(c, g, "scrim_maps", day, map_name)
set_premier_map(c, g, day, map_name)  == SetDayChecked(c, g, "premier_maps", day, map_name)
set_practice_map(c, g, day, map_name) == SetDayChecked(c, g, "practice_maps", day, map_name)

\* _data after set_locked_lineup; the entry is kept as its player ids
set_locked_lineup(c, g, day, player_ids, match_type) ==
    LET e   == GuildDict(c, g)
        key == LockKey(day, match_type)
    IN  IF ~ValidDay(day) THEN _ensure_guild(c, g)
        ELSE [_ensure_guild(c, g) EXCEPT ![g] =
                [e EXCEPT !.locked_lineups =
                    [k \in DOMAIN e.locked_lineups \cup {key} |->
                        IF k = key THEN player_ids ELSE e.locked_lineups[k]]]]

set_team_roles(c, g, team_a_role_id, team_b_role_id) ==
    LET e == GuildDict(c, g)
    IN  [_ensure_guild(c, g) EXCEPT ![g] =
            [e EXCEPT !.team_a_role_id = IF team_a_role_id # NoId THEN team_a_role_id ELSE @,
                      !.team_b_role_id = IF team_b_role_id # NoId THEN team_b_role_id ELSE @]]

\* _data after set_reminders_enabled
set_reminders_enabled(c, g, enabled) ==
    LET e == GuildDict(c, g)
    IN  [_ensure_guild(c, g) EXCEPT ![g] =
            [e EXCEPT !.reminders_enabled = enabled,
                      !.opt = @ \cup {"reminders_enabled"}]]

\* g.get("reminders_enabled", True)
get_reminders_enabled(c, g) ==
    LET e == GuildDict(c, g)
    IN  IF "reminders_enabled" \in e.opt THEN e.reminders_enabled ELSE TRUE

set_announcement_channel(c, g, channel_id) ==
    [_ensure_guild(c, g) EXCEPT ![g] =
        [GuildDict(c, g) EXCEPT !.announcement_channel_id = channel_id]]

get_announcement_channel(c, g) == GuildDict(c, g).announcement_channel_id

set_ping_role(c, g, role_id) ==
    [_ensure_guild(c, g) EXCEPT ![g] =
        [GuildDict(c, g) EXCEPT !.ping_role_id = role_id]]

get_ping_role(c, g) == GuildDict(c, g).ping_role_id

\* ------------------------------------------------------------------------
\* scheduler.py: ScheduleBuilder
\* ------------------------------------------------------------------------

Controller == <<"c","o","n","t","r","o","l","l","e","r">>
Sentinel   == <<"s","e","n","t","i","n","e","l">>
Initiator  == <<"i","n","i","t","i","a","t","o","r">>
Duelist    == <<"d","u","e","l","i","s","t">>

ROLE_PRIORITY == <<Controller, Sentinel, Initiator, Duelist>>

\* players a team needs for Premier, and a lineup holds
PremierQuorum == 5

\* a lineup of four
LineupOfFour == PremierQuorum - 1

\* players of a lineup
LineupSize == 5

\* players a practice needs
PracticeQuorum == 5

\* players a scrim needs
ScrimQuorum == 10

Max(a, b) == IF a >= b THEN a ELSE b

\* (str(info.get("team") or "")).upper()
TeamLabel(team) == Upper(IF team = None THEN <<>> ELSE team)

\* the dict order of team_counts
TeamOrder == <<TeamA, TeamB>>

\* a tally that puts every user who is not on Team A on Team B
TeamCountsRestAsB(us) ==
    [t \in Range(TeamOrder) |->
        Cardinality({ i \in DOMAIN us :
            IF TeamLabel(us[i].team) = TeamA THEN t = TeamA ELSE t = TeamB })]

\* team_counts after the scan of the day's users
TeamCounts(us) ==
    [t \in Range(TeamOrder) |->
        Cardinality({ i \in DOMAIN us : TeamLabel(us[i].team) = t })]

\* the team with the highest count, whether or not it has 5
SelectWithoutQuorum(team_counts) ==
    TeamOrder[CHOOSE i \in DOMAIN TeamOrder :
        \A j \in DOMAIN TeamOrder :
            \/ team_counts[TeamOrder[i]] > team_counts[TeamOrder[j]]
            \/ team_counts[TeamOrder[i]] = team_counts[TeamOrder[j]] /\ i <= j]

\* the first team, in dict order, that has 5, whatever the other has
SelectFirstQualified(team_counts) ==
    LET qualified == { i \in DOMAIN TeamOrder : team_counts[TeamOrder[i]] >= PremierQuorum }
    IN  IF qualified = {} THEN None
        ELSE TeamOrder[CHOOSE i \in qualified : \A j \in qualified : i <= j]

\* a max that keeps the last of the teams with the highest count
SelectLastOfTies(team_counts) ==
    LET qualified == { i \in DOMAIN TeamOrder : team_counts[TeamOrder[i]] >= PremierQuorum }
    IN  IF qualified = {} THEN None
        ELSE TeamOrder[CHOOSE i \in qualified :
                \A j \in qualified :
                    \/ team_counts[TeamOrder[i]] > team_counts[TeamOrder[j]]
                    \/ team_counts[TeamOrder[i]] = team_counts[TeamOrder[j]] /\ i >= j]

\* max(qualified, key=...): the first team, in dict order, with the highest
\* count among the teams that have 5 or more; None when there is none
_select_premier_team(team_counts) ==
    LET qualified == { i \in DOMAIN TeamOrder : team_counts[TeamOrder[i]] >= PremierQuorum }
    IN  IF qualified = {} THEN None
        ELSE TeamOrder[CHOOSE i \in qualified :
                \A j \in qualified :
                    \/ team_counts[TeamOrder[i]] > team_counts[TeamOrder[j]]
                    \/ team_counts[TeamOrder[i]] = team_counts[TeamOrder[j]] /\ i <= j]

\* PlayerInfo built from one user of the day
PlayerOf(u) ==
    [user_id |-> u.id, display_name |-> u.display_name,
     team |-> IF TeamLabel(u.team) \in Range(TeamOrder) THEN TeamLabel(u.team) ELSE None,
     roles |-> u.roles, agents |-> u.agents]

role_score(player) ==
    LET held == { i \in DOMAIN ROLE_PRIORITY : ROLE_PRIORITY[i] \in Range(player.roles) }
        pts  == [i \in DOMAIN ROLE_PRIORITY |->
                    IF i \in held THEN (Len(ROLE_PRIORITY) - (i - 1)) * 10 ELSE 0]
    IN  pts[1] + pts[2] + pts[3] + pts[4] + (IF player.roles # <<>> THEN 5 ELSE 0)

\* the positions todo of players, ordered as sorted(..., reverse=True) orders
\* them: highest score first, equal scores in their original order
RECURSIVE OrderByScore(_, _)
OrderByScore(score, todo) ==
    IF todo = {} THEN <<>>
    ELSE LET best == CHOOSE i \in todo :
                        \A j \in todo :
                            score[i] > score[j] \/ (score[i] = score[j] /\ i <= j)
         IN  <<best>> \o OrderByScore(score, todo \ {best})

\* sorted(players, key=role_score, reverse=True)
SortByScore(players) ==
    LET score == [i \in DOMAIN players |-> role_score(players[i])]
        order == OrderByScore(score, DOMAIN players)
    IN  [k \in DOMAIN order |-> players[order[k]]]

\* a first pass that takes only players who bring a role not yet covered
RECURSIVE FirstPassNewRolesOnly(_, _, _)
FirstPassNewRolesOnly(sorted, k, acc) ==
    IF k > Len(sorted) \/ Len(acc.selected) >= LineupSize THEN acc
    ELSE LET player_roles == Range(sorted[k].roles)
             new_roles    == player_roles \ acc.covered_roles
         IN  IF new_roles # {}
             THEN FirstPassNewRolesOnly(sorted, k + 1,
                     [selected |-> Append(acc.selected, sorted[k]),
                      covered_roles |-> acc.covered_roles \cup player_roles])
             ELSE FirstPassNewRolesOnly(sorted, k + 1, acc)

\* first pass of _suggest_lineup over sorted_players[k..]: acc is
\* [selected, covered_roles]
RECURSIVE FirstPass(_, _, _)
FirstPass(sorted, k, acc) ==
    IF k > Len(sorted) \/ Len(acc.selected) >= LineupSize THEN acc
    ELSE LET player_roles == Range(sorted[k].roles)
             new_roles    == player_roles \ acc.covered_roles
         IN  IF new_roles # {} \/ player_roles = {}
             THEN FirstPass(sorted, k + 1,
                     [selected |-> Append(acc.selected, sorted[k]),
                      covered_roles |-> acc.covered_roles \cup player_roles])
             ELSE FirstPass(sorted, k + 1, acc)

\* a second pass that does not look whether the player is already selected
RECURSIVE SecondPassAgain(_, _, _)
SecondPassAgain(sorted, k, acc) ==
    IF k > Len(sorted) \/ Len(acc.selected) >= LineupSize THEN acc
    ELSE SecondPassAgain(sorted, k + 1,
             [selected |-> Append(acc.selected, sorted[k]),
              covered_roles |-> acc.covered_roles \cup Range(sorted[k].roles)])

\* second pass of _suggest_lineup: fill the remaining slots
RECURSIVE SecondPass(_, _, _)
SecondPass(sorted, k, acc) ==
    IF k > Len(sorted) \/ Len(acc.selected) >= LineupSize THEN acc
    ELSE IF sorted[k] \notin Range(acc.selected)
         THEN SecondPass(sorted, k + 1,
                 [selected |-> Append(acc.selected, sorted[k]),
                  covered_roles |-> acc.covered_roles \cup Range(sorted[k].roles)])
         ELSE SecondPass(sorted, k + 1, acc)

\* lineup_suggestion of a day without one
NoLineup == [none |-> TRUE]

\* a _suggest_lineup that never narrows the pool to the target team
SuggestFromEveryone(players, target_team) ==
    LET sorted == SortByScore(players)
        first  == FirstPass(sorted, 1, [selected |-> <<>>, covered_roles |-> {}])
        final  == SecondPass(sorted, 1, first)
        missing_roles == SelectSeq(ROLE_PRIORITY, LAMBDA r : r \notin final.covered_roles)
    IN  [players       |-> final.selected,
         missing_roles |-> missing_roles,
         is_complete   |-> Len(final.selected) >= LineupSize,
         has_all_roles |-> Len(missing_roles) = 0]

_suggest_lineup(players, target_team) ==
    LET team_players == SelectSeq(players, LAMBDA p : p.team = target_team)
        pool   == IF target_team # None /\ target_team # <<>>
                     /\ Len(team_players) >= LineupSize
                  THEN team_players ELSE players
        sorted == SortByScore(pool)
        first  == FirstPass(sorted, 1, [selected |-> <<>>, covered_roles |-> {}])
        final  == SecondPass(sorted, 1, first)
        missing_roles == SelectSeq(ROLE_PRIORITY, LAMBDA r : r \notin final.covered_roles)
    IN  [players       |-> final.selected,
         missing_roles |-> missing_roles,
         is_complete   |-> Len(final.selected) >= LineupSize,
         has_all_roles |-> Len(missing_roles) = 0]

\* X_ready that looks at the head count only
ReadyIgnoringTime(time, total, quorum) == total >= quorum

\* X_ready: the activity has a time that day and enough players
ReadyOf(time, total, quorum) == time # None /\ total >= quorum

\* X_missing without the floor at 0
MissingNoFloor(time, total, quorum) ==
    IF time # None THEN quorum - total ELSE 0

\* X_missing: the players still needed, 0 for an activity that is off
MissingOf(time, total, quorum) ==
    IF time # None THEN Max(0, quorum - total) ELSE 0

\* the DaySummary build_week appends for one day; c is the config store as
\* the getters find it
DaySummaryOf(store, c, g, day, include_lineup_suggestions) ==
    LET us             == users_for_day(store, day)
        team_counts    == TeamCounts(us)
        premier_window == get_premier_window(c, g, day)
        scrim_time     == get_scrim_time(c, g, day)
        practice_time  == get_practice_time(c, g, day)
        premier_team   == IF premier_window # None /\ premier_window # <<>>
                          THEN _select_premier_team(team_counts) ELSE None
        total          == Len(us)
    IN  [day              |-> day,
         total_available  |-> total,
         team_counts      |-> team_counts,
         premier_team     |-> premier_team,
         premier_window   |-> premier_window,
         premier_map      |-> get_premier_map(c, g, day),
         practice_time    |-> practice_time,
         practice_map     |-> get_practice_map(c, g, day),
         scrim_time       |-> scrim_time,
         scrim_map        |-> get_scrim_map(c, g, day),
         practice_ready   |-> ReadyOf(practice_time, total, PracticeQuorum),
         practice_missing |-> MissingOf(practice_time, total, PracticeQuorum),
         scrim_ready      |-> ReadyOf(scrim_time, total, ScrimQuorum),
         scrim_missing    |-> MissingOf(scrim_time, total, ScrimQuorum),
         available_names  |-> [i \in DOMAIN us |-> us[i].display_name],
         lineup_suggestion |->
             IF include_lineup_suggestions /\ total >= LineupSize
             THEN _suggest_lineup([i \in DOMAIN us |-> PlayerOf(us[i])], premier_team)
             ELSE NoLineup,
         locked_lineup_ids |-> get_locked_lineup(c, g, day, Premier)]

\* the list build_week returns
build_week(store, c, g, include_lineup_suggestions) ==
    [i \in DOMAIN WEEK_DAYS |->
        DaySummaryOf(store, c, g, WEEK_DAYS[i], include_lineup_suggestions)]

\* the three status lines of DaySummary.to_lines, as the case each one takes
to_lines(s) ==
    [premier  |-> IF s.premier_window = None THEN "OFF"
                  ELSE IF s.premier_team # None /\ s.premier_team # <<>> THEN "TEAM"
                  ELSE "NEEDS_5",
     practice |-> IF s.practice_time = None THEN "OFF"
                  ELSE IF s.practice_ready THEN "READY" ELSE "NEEDS_MORE",
     scrim    |-> IF s.scrim_time = None THEN "OFF"
                  ELSE IF s.scrim_ready THEN "READY" ELSE "NEEDS_MORE"]

\* ------------------------------------------------------------------------
\* State
\* ------------------------------------------------------------------------

VARIABLES
    users,        \* AvailabilityStore._data["users"], in insertion order
    cfg,          \* GuildConfigStore._data: guild id -> config dict or NoGuild
    memberRoles,  \* platform role ids each acting member holds
    week,         \* the last build_week call and its result, NoCall after a write
    prevWeek,     \* the build_week call before it, when it had the same arguments
    lastOp,       \* the handler that ran last, its member and its day argument
    now,          \* datetime.now(): the calendar date and the minute of the day
    cog,          \* the fields of RoleSyncCog and the position of its sync pass
    channel,      \* the reminders sent to the guilds' announcement channels
    logs          \* GameLogStore._data["guilds"]: guild id -> list of log entries

vars == <<users, cfg, memberRoles, week, prevWeek, lastOp, now, cog, channel, logs>>

\* what the periodic tasks and the match log keep; the availability and
\* configuration commands leave it alone
taskVars == <<now, cog, channel, logs>>

\* a date that is not set (None)
NoDate == -1

\* a role sync pass that is not running
NoPass ==
    [phase |-> "done", role |-> NoId, today_users |-> <<>>, allowed_ids |-> {},
     i |-> 1, failed |-> FALSE, calls |-> {}, synced_before |-> FALSE]

\* RoleSyncCog.__init__
NewCog ==
    [_last_reset_date    |-> NoDate,
     _scrim_ping_sent    |-> [g \in Guilds |-> NoDate],
     _practice_ping_sent |-> [g \in Guilds |-> NoDate],
     pass                |-> NoPass]

\* the bot starts on a Monday at midnight and has sent nothing
TaskInit ==
    /\ now = [date |-> 0, minute |-> 0]
    /\ cog = NewCog
    /\ channel = {}
    /\ logs = [g \in Guilds |-> <<>>]

\* the members that run commands
Users == 1..NumUsers

\* the guild the members run their commands in
HomeGuild == 1

\* ids of the platform roles that stand for the two teams
RoleA == 501
RoleB == 502

\* member.display_name
NameOf(u) == <<"member", ToString(u)>>

NoCall == [none |-> TRUE]

Op(name, u, arg) == [op |-> name, user |-> u, arg |-> arg]

\* every store write invalidates the recorded build_week calls
Wrote == week' = NoCall /\ prevWeek' = NoCall

\* ------------------------------------------------------------------------
\* bot.py: availability handlers
\* ------------------------------------------------------------------------

\* sorted({normalize_day(day) or day.lower() for day in days if normalize_day(day)})
SavedDays(days) ==
    SortedStrs({ IF normalize_day(d) # None THEN normalize_day(d) ELSE Lower(d) :
                    d \in { x \in Range(days) : normalize_day(x) # None } })

\* the availability store after AvailabilityCog._save_availability
_save_availability(store, c, u, roles_held, days, team_override) ==
    set_availability(store, u, NameOf(u),
        infer_team(roles_held, team_override, get_team_roles(c, HomeGuild),
                   env_team_roles),
        SavedDays(days))

\* /availability set days:<raw> team:<team>
AvailabilitySet(u, raw, team) ==
    /\ parse_days(raw) # <<>>
    /\ users' = _save_availability(users, cfg, u, memberRoles[u], parse_days(raw), team)
    /\ cfg' = _ensure_guild(cfg, HomeGuild)
    /\ lastOp' = Op("availability_set", u, raw)
    /\ Wrote
    /\ UNCHANGED memberRoles
    /\ UNCHANGED taskVars

\* the select menu of the signup panel, and its "Available All Week" button
PanelSelect(u, values) ==
    /\ values # <<>>
    /\ users' = _save_availability(users, cfg, u, memberRoles[u], values, None)
    /\ cfg' = _ensure_guild(cfg, HomeGuild)
    /\ lastOp' = Op("panel_select", u, values)
    /\ Wrote
    /\ UNCHANGED memberRoles
    /\ UNCHANGED taskVars

\* /availability clear, and the "Clear My Week" button
AvailabilityClear(u) ==
    /\ users' = clear_user(users, u)
    /\ lastOp' = Op("availability_clear", u, <<>>)
    /\ Wrote
    /\ UNCHANGED <<cfg, memberRoles>>
    /\ UNCHANGED taskVars

\* /availability resetweek, by a member who may manage the server
AvailabilityResetWeek(u, may_manage) ==
    /\ may_manage
    /\ users' = reset_all(users)
    /\ lastOp' = Op("availability_resetweek", u, [cleared |-> reset_all_count(users)])
    /\ Wrote
    /\ UNCHANGED <<cfg, memberRoles>>
    /\ UNCHANGED taskVars

\* the agent select menu, after the roles were picked
AgentsSet(u, roles, agents) ==
    /\ roles # <<>>
    /\ users' = set_agents(users, u, NameOf(u), roles, agents)
    /\ lastOp' = Op("agents_set", u, <<>>)
    /\ Wrote
    /\ UNCHANGED <<cfg, memberRoles>>
    /\ UNCHANGED taskVars

\* /agents clear
AgentsClear(u) ==
    /\ users' = clear_agents(users, u)
    /\ lastOp' = Op("agents_clear", u, <<>>)
    /\ Wrote
    /\ UNCHANGED <<cfg, memberRoles>>
    /\ UNCHANGED taskVars

\* /profile timezone
ProfileTimezone(u, timezone) ==
    /\ users' = set_user_timezone(users, u, timezone)
    /\ lastOp' = Op("profile_timezone", u, <<>>)
    /\ Wrote
    /\ UNCHANGED <<cfg, memberRoles>>
    /\ UNCHANGED taskVars

\* an on_member_update that keeps the stored team of a member who holds no
\* team role
OnMemberUpdateKeepsTeam(store, c, u, after_ids) ==
    IF get_user_days(store, u) = <<>> THEN store
    ELSE set_availability(store, u, NameOf(u),
             infer_team(after_ids, GetEntry(store, u).team,
                        get_team_roles(c, HomeGuild), env_team_roles),
             get_user_days(store, u))

\* _data["users"] after on_member_update for a member whose roles changed
\* to after_ids: the stored team follows the roles, the days stay
on_member_update(store, c, u, after_ids) ==
    IF get_user_days(store, u) = <<>> THEN store
    ELSE set_availability(store, u, NameOf(u),
             infer_team(after_ids, None, get_team_roles(c, HomeGuild),
                        env_team_roles),
             get_user_days(store, u))

\* on_member_update: the platform reports a change of a member, who now
\* holds the roles after_ids; the handler returns at once when these are the
\* roles the member held before (a change of nickname, say)
MemberUpdate(u, after_ids) ==
    /\ memberRoles' = [memberRoles EXCEPT ![u] = after_ids]
    /\ IF memberRoles[u] = after_ids
       THEN UNCHANGED <<cfg, users, week, prevWeek>>
       ELSE /\ cfg' = _ensure_guild(cfg, HomeGuild)
            /\ users' = on_member_update(users, cfg, u, after_ids)
            /\ Wrote
    /\ lastOp' = Op("on_member_update", u, <<>>)
    /\ UNCHANGED taskVars

\* ------------------------------------------------------------------------
\* bot.py: /config handlers
\* ------------------------------------------------------------------------

\* for d in norm_days: setter(guild, d, value)
RECURSIVE SetDays(_, _, _, _, _)
SetDays(c, g, field, days, value) ==
    IF days = <<>> THEN c
    ELSE SetDays(SetDayChecked(c, g, field, Head(days), value), g, field,
                 Tail(days), value)

\* the value a time command stores: None for an off word, the label itself
\* when it parses, Rejected otherwise
Rejected == <<"<rejected>">>

TimeValue(time_label) ==
    IF Lower(time_label) \in OffWords THEN None
    ELSE IF _parse_hhmm_to_time(time_label) = NoTime THEN Rejected
    ELSE time_label

WindowValue(window) ==
    LET parts == Split(window, "-")
    IN  IF Lower(window) \in OffWords THEN None
        ELSE IF \/ Len(parts) # 2
                \/ _parse_hhmm_to_time(parts[1]) = NoTime
                \/ _parse_hhmm_to_time(parts[2]) = NoTime THEN Rejected
        ELSE window

\* /config scrimtime
ConfigScrimTime(g, raw, time_label, may_manage) ==
    /\ parse_days(raw) # <<>>
    /\ may_manage
    /\ TimeValue(time_label) # Rejected
    /\ cfg' = SetDays(cfg, g, "scrim_times", parse_days(raw), TimeValue(time_label))
    /\ lastOp' = Op("config_scrim_time", 0, <<>>)
    /\ Wrote
    /\ UNCHANGED <<users, memberRoles>>
    /\ UNCHANGED taskVars

\* /config premier_window
ConfigPremierWindow(g, raw, window, may_manage) ==
    /\ parse_days(raw) # <<>>
    /\ may_manage
    /\ WindowValue(window) # Rejected
    /\ cfg' = SetDays(cfg, g, "premier_windows", parse_days(raw), WindowValue(window))
    /\ lastOp' = Op("config_premier_window", 0, <<>>)
    /\ Wrote
    /\ UNCHANGED <<users, memberRoles>>
    /\ UNCHANGED taskVars

\* /config practicetime
ConfigPracticeTime(g, raw, time_label, may_manage) ==
    /\ parse_days(raw) # <<>>
    /\ may_manage
    /\ TimeValue(time_label) # Rejected
    /\ cfg' = SetDays(cfg, g, "practice_times", parse_days(raw), TimeValue(time_label))
    /\ lastOp' = Op("config_practice_time", 0, <<>>)
    /\ Wrote
    /\ UNCHANGED <<users, memberRoles>>
    /\ UNCHANGED taskVars

\* /config teamroles
ConfigTeamRoles(g, team_a, team_b) ==
    /\ team_a # NoId \/ team_b # NoId
    /\ cfg' = set_team_roles(cfg, g, team_a, team_b)
    /\ lastOp' = Op("config_team_roles", 0, <<>>)
    /\ Wrote
    /\ UNCHANGED <<users, memberRoles>>
    /\ UNCHANGED taskVars

\* ------------------------------------------------------------------------
\* bot.py: /schedule preview (no lineups) and /lineup suggest (lineups)
\* ------------------------------------------------------------------------

BuildWeek(g, include_lineup_suggestions) ==
    /\ week' = [guild   |-> g,
                lineups |-> include_lineup_suggestions,
                result  |-> build_week(users, cfg, g, include_lineup_suggestions)]
    /\ prevWeek' = IF /\ week # NoCall
                      /\ week.guild = g
                      /\ week.lineups = include_lineup_suggestions
                   THEN week ELSE NoCall
    /\ cfg' = _ensure_guild(cfg, g)
    /\ lastOp' = Op("build_week", 0, <<>>)
    /\ UNCHANGED <<users, memberRoles>>
    /\ UNCHANGED taskVars

\* ------------------------------------------------------------------------
\* Inputs of the handlers
\* ------------------------------------------------------------------------

\* "wed,fri"
RawWedFri == <<"w","e","d",",","f","r","i">>

\* "Wed, wednesday ,FRI,xyz": capitals, blanks, one day named twice, and a
\* word that is no day
RawMixed == <<"W","e","d",","," ","w","e","d","n","e","s","d","a","y"," ",",",
              "F","R","I",",","x","y","z">>

\* "xyz": no day at all
RawBad == <<"x","y","z">>

\* "fri"
RawFri == <<"f","r","i">>

RawDayInputs == {RawWedFri, RawMixed, RawBad}

\* team: None when the option is left out
TeamInputs == {None, <<"b">>}

\* the values a member picks in the panel's select menu
PanelValues == {<<Friday, Monday>>, WEEK_DAYS}

RoleInputs == {<<Duelist>>, <<Sentinel, Controller>>}

Jett == <<"J","e","t","t">>
Omen == <<"O","m","e","n">>

TimezoneInputs == {<<"America/New_York">>}

\* the member that uses every command; the others only sign up for the
\* whole week on the panel and clear
RichUsers == {1}

\* ------------------------------------------------------------------------
\* Specification of the availability store under the member commands
\* ------------------------------------------------------------------------

Init ==
    /\ users = <<>>
    /\ cfg = [g \in Guilds |-> NoGuild]
    /\ memberRoles = [u \in Users |-> {}]
    /\ week = NoCall
    /\ prevWeek = NoCall
    /\ lastOp = Op("init", 0, <<>>)
    /\ TaskInit

Next ==
    \/ \E u \in RichUsers, raw \in RawDayInputs, team \in TeamInputs :
          AvailabilitySet(u, raw, team)
    \/ \E u \in Users, values \in PanelValues :
          /\ u \in RichUsers \/ values = WEEK_DAYS
          /\ PanelSelect(u, values)
    \/ \E u \in Users : AvailabilityClear(u)
    \/ \E u \in RichUsers, may_manage \in BOOLEAN : AvailabilityResetWeek(u, may_manage)
    \/ \E u \in RichUsers, roles \in RoleInputs : AgentsSet(u, roles, <<Omen, Jett>>)
    \/ \E u \in RichUsers : AgentsClear(u)
    \/ \E u \in RichUsers, tz \in TimezoneInputs : ProfileTimezone(u, tz)
    \/ \E u \in RichUsers, ids \in SUBSET {RoleA} : MemberUpdate(u, ids)
    \/ ConfigTeamRoles(HomeGuild, RoleA, RoleB)

Spec == Init /\ [][Next]_vars

\* ------------------------------------------------------------------------
\* Specification of the weekly schedule over a loaded availability file
\* ------------------------------------------------------------------------

\* str(n) for a natural number
RECURSIVE DecStr(_)
DecStr(n) ==
    IF n < 10 THEN <<Digits[n + 1]>>
    ELSE DecStr(n \div 10) \o <<Digits[(n % 10) + 1]>>

\* the entry a signed-up user has in the file: all week, on the given team
CrowdEntry(uid, team) ==
    [EmptyEntry(uid) EXCEPT
        !.display_name = NameOf(uid),
        !.team = team,
        !.days = NormalizedDays(WEEK_DAYS),
        !.keys = {"display_name", "team", "days", "roles", "agents"}]

\* _data["users"] after _load of a file that _atomic_write wrote with
\* sort_keys=True: nA users of team A, nB of team B and nN without a team,
\* in the order of their keys
LoadedStore(nA, nB, nN) ==
    LET keys == SortedStrs({ DecStr(NumUsers + i) : i \in 1..(nA + nB + nN) })
    IN  [k \in DOMAIN keys |->
            LET i == IntVal(keys[k]) - NumUsers
            IN  CrowdEntry(IntVal(keys[k]),
                    IF i <= nA THEN TeamA
                    ELSE IF i <= nA + nB THEN TeamB ELSE None)]

LoadedStores ==
    { LoadedStore(nA, nB, 0) : nA \in 0..MaxTeam, nB \in 0..MaxTeam }

T1830 == <<"1","8",":","3","0">>

\* "25:00": no time of day
TBad == <<"2","5",":","0","0">>

TOff == <<"O","f","f">>

InitWeek ==
    /\ users \in LoadedStores
    /\ cfg = [g \in Guilds |-> NoGuild]
    /\ memberRoles = [u \in Users |-> {}]
    /\ week = NoCall
    /\ prevWeek = NoCall
    /\ lastOp = Op("init", 0, <<>>)
    /\ TaskInit

NextWeek ==
    \/ \E team \in {None, <<"b">>, <<"c">>} : AvailabilitySet(1, RawFri, team)
    \/ \E label \in {TOff, T2000, TBad}, may_manage \in BOOLEAN :
          ConfigScrimTime(HomeGuild, RawFri, label, may_manage)
    \/ \E window \in {TOff, W2021, T2000}, may_manage \in BOOLEAN :
          ConfigPremierWindow(HomeGuild, RawFri, window, may_manage)
    \/ \E label \in {TOff, T1830, TBad}, may_manage \in BOOLEAN :
          ConfigPracticeTime(HomeGuild, RawFri, label, may_manage)
    \/ BuildWeek(HomeGuild, FALSE)

SpecWeek == InitWeek /\ [][NextWeek]_vars

\* ------------------------------------------------------------------------
\* Specification of repeated build_week calls, for configured and
\* unconfigured guilds, with and without lineup suggestions
\* ------------------------------------------------------------------------

InitBuild ==
    /\ users \in { LoadedStore(nA, 0, 1) : nA \in 0..MaxTeam }
    /\ cfg = [g \in Guilds |-> NoGuild]
    /\ memberRoles = [u \in Users |-> {}]
    /\ week = NoCall
    /\ prevWeek = NoCall
    /\ lastOp = Op("init", 0, <<>>)
    /\ TaskInit

NextBuild ==
    \/ AvailabilitySet(1, RawFri, None)
    \/ \E g \in Guilds, window \in {TOff, W1920} :
          ConfigPremierWindow(g, RawFri, window, TRUE)
    \/ \E g \in Guilds, lineups \in BOOLEAN : BuildWeek(g, lineups)

SpecBuild == InitBuild /\ [][NextBuild]_vars

\* ------------------------------------------------------------------------
\* Properties of build_week
\* ------------------------------------------------------------------------

\* the users of the store that have day among their days, counted from the
\* store itself
AvailableOn(store, day) ==
    { k \in DOMAIN store : \E i \in DOMAIN store[k].days : store[k].days[i] = day }

\* those of them whose stored team is t
OnTeam(store, day, t) == { k \in AvailableOn(store, day) : store[k].team = t }

\* the config dict of the guild of the recorded call
WeekCfg == cfg[week.guild]

\* C1: in every summary of build_week, total_available is the number of users
\* available that day whatever their team, and for an activity with a time
\* configured that day, scrim_ready iff total >= 10 and scrim_missing =
\* max(0, 10 - total), practice_ready iff total >= 5 and practice_missing =
\* max(0, 5 - total)
C1_Readiness ==
    week # NoCall =>
        \A i \in DOMAIN week.result :
            LET s     == week.result[i]
                total == Cardinality(AvailableOn(users, s.day))
            IN  /\ s.total_available = total
                /\ WeekCfg.scrim_times[s.day] # None =>
                      /\ s.scrim_ready <=> total >= 10
                      /\ s.scrim_missing = IF total >= 10 THEN 0 ELSE 10 - total
                /\ WeekCfg.practice_times[s.day] # None =>
                      /\ s.practice_ready <=> total >= 5
                      /\ s.practice_missing = IF total >= 5 THEN 0 ELSE 5 - total

\* build_week ran on a week where Friday has a scrim and a practice time and
\* 10 users (scrim and practice ready, nothing missing) and Wednesday has a
\* scrim time and 9 users (not ready, 1 missing)
C1_Witness ==
    /\ week # NoCall
    /\ WeekCfg.practice_times[Friday] # None
    /\ week.result[5].total_available = 10
    /\ week.result[5].scrim_ready
    /\ week.result[5].scrim_missing = 0
    /\ week.result[5].practice_ready
    /\ week.result[3].scrim_time # None
    /\ week.result[3].total_available = 9
    /\ ~week.result[3].scrim_ready
    /\ week.result[3].scrim_missing = 1

\* C2: a day without a scrim time has scrim_ready false and the scrim line
\* of the summary reads OFF, however many users are available
C2_ScrimOff ==
    week # NoCall =>
        \A i \in DOMAIN week.result :
            WeekCfg.scrim_times[week.result[i].day] = None =>
                /\ ~week.result[i].scrim_ready
                /\ to_lines(week.result[i]).scrim = "OFF"

\* build_week ran with 10 or more users on a day whose scrim time is off
C2_Witness ==
    /\ week # NoCall
    /\ \E i \in DOMAIN week.result :
          /\ WeekCfg.scrim_times[week.result[i].day] = None
          /\ Cardinality(AvailableOn(users, week.result[i].day)) >= 10
          /\ ~week.result[i].scrim_ready

\* C3: premier_team is set only on a day with a premier window and a team of
\* 5 or more; it is then A or B, that team has 5 or more of the day's users,
\* and the two team counts together do not exceed the day's total
C3_PremierTeamSound ==
    week # NoCall =>
        \A i \in DOMAIN week.result :
            LET s == week.result[i]
            IN  /\ s.team_counts[TeamA] + s.team_counts[TeamB] <= s.total_available
                /\ s.premier_team # None =>
                      /\ WeekCfg.premier_windows[s.day] # None
                      /\ s.premier_team \in {TeamA, TeamB}
                      /\ Cardinality(OnTeam(users, s.day, s.premier_team)) >= 5

\* build_week chose a premier team on a day where both teams have 5 or more
C3_Witness ==
    /\ week # NoCall
    /\ \E i \in DOMAIN week.result :
          /\ week.result[i].premier_team = TeamB
          /\ Cardinality(OnTeam(users, week.result[i].day, TeamA)) >= 5
          /\ Cardinality(OnTeam(users, week.result[i].day, TeamB)) >= 5

\* C4 as stated: with a premier window and a team of 5 or more, premier_team
\* is a team of 5 or more whose count is strictly higher than the other's
C4_StrictlyHighest ==
    week # NoCall =>
        \A i \in DOMAIN week.result :
            LET s  == week.result[i]
                nA == Cardinality(OnTeam(users, s.day, TeamA))
                nB == Cardinality(OnTeam(users, s.day, TeamB))
            IN  (WeekCfg.premier_windows[s.day] # None /\ (nA >= 5 \/ nB >= 5)) =>
                    \/ s.premier_team = TeamA /\ nA >= 5 /\ nA > nB
                    \/ s.premier_team = TeamB /\ nB >= 5 /\ nB > nA

\* C4, amended: with a premier window and a team of 5 or more, premier_team
\* is a team of 5 or more that no team outnumbers: the strictly larger team
\* when there is one, Team A when the counts are equal; with A at 5 and B at
\* 3 it is A
C4_HighestCount ==
    week # NoCall =>
        \A i \in DOMAIN week.result :
            LET s  == week.result[i]
                nA == Cardinality(OnTeam(users, s.day, TeamA))
                nB == Cardinality(OnTeam(users, s.day, TeamB))
            IN  (WeekCfg.premier_windows[s.day] # None /\ (nA >= 5 \/ nB >= 5)) =>
                    /\ \/ s.premier_team = TeamA /\ nA >= 5 /\ nA >= nB
                       \/ s.premier_team = TeamB /\ nB >= 5 /\ nB > nA
                    /\ (nA = 5 /\ nB = 3) => s.premier_team = TeamA

\* build_week ran with a premier window on Wednesday, Team A at exactly 5 and
\* Team B at 3, and chose Team A
C4_Witness ==
    /\ week # NoCall
    /\ week.result[3].premier_window # None
    /\ Cardinality(OnTeam(users, Wednesday, TeamA)) = 5
    /\ Cardinality(OnTeam(users, Wednesday, TeamB)) = 3
    /\ week.result[3].premier_team = TeamA

\* the store without the entry of user uid
Without(store, uid) == SelectSeq(store, LAMBDA e : e.id # uid)

\* the entries of the store whose team is neither A nor B (none at all
\* included) and that have day among their days
NoTeamOn(store, day) ==
    { k \in AvailableOn(store, day) : TeamLabel(store[k].team) \notin {TeamA, TeamB} }

\* C9: a user without a team, or with a team that is neither A nor B, counts
\* in total_available and in no team count: A + B <= total, the team counts
\* are those of the users on A and on B, and next to the summary of the same
\* store without that user the total is one higher, team_counts and
\* premier_team are the same, and a scrim day that had 9 is ready with
\* nothing missing
C9_NoTeamCounted ==
    week # NoCall =>
        \A i \in DOMAIN week.result :
            LET s == week.result[i]
            IN  /\ s.team_counts[TeamA] + s.team_counts[TeamB] <= s.total_available
                /\ s.team_counts[TeamA] + s.team_counts[TeamB]
                      + Cardinality(NoTeamOn(users, s.day)) = s.total_available
                /\ \A k \in NoTeamOn(users, s.day) :
                      LET s0 == DaySummaryOf(Without(users, users[k].id), cfg,
                                             week.guild, s.day, week.lineups)
                      IN  /\ s.total_available = s0.total_available + 1
                          /\ s.team_counts = s0.team_counts
                          /\ s.premier_team = s0.premier_team
                          /\ (s0.total_available = 9 /\ s.scrim_time # None) =>
                                /\ ~s0.scrim_ready
                                /\ s.scrim_ready
                                /\ s.scrim_missing = 0

\* build_week ran on a Friday with a scrim time and a premier window where a
\* user without a team is the 10th available: the scrim is ready, Team A
\* still has its 5 and is the premier team
C9_Witness ==
    /\ week # NoCall
    /\ NoTeamOn(users, Friday) # {}
    /\ \E k \in NoTeamOn(users, Friday) : users[k].team = None
    /\ week.result[5].total_available = 10
    /\ week.result[5].team_counts[TeamA] = 5
    /\ week.result[5].team_counts[TeamB] = 4
    /\ week.result[5].scrim_ready
    /\ week.result[5].scrim_missing = 0
    /\ week.result[5].premier_team = TeamA

\* C5: when build_week is called twice in a row for the same guild with the
\* same arguments and no write in between, the second list of 7 summaries
\* equals the first, field by field, lineup suggestions included
C5_Idempotent ==
    prevWeek # NoCall =>
        /\ Len(week.result) = 7
        /\ week.result = prevWeek.result

\* build_week ran twice in a row with lineup suggestions for a guild that
\* had no entry before the first call, and Friday has a suggested lineup
C5_Witness ==
    /\ prevWeek # NoCall
    /\ week.lineups
    /\ week.guild = 2
    /\ cfg[2] = NewGuild
    /\ week.result[5].lineup_suggestion # NoLineup
    /\ week.result[1].lineup_suggestion # NoLineup

DenotedBy(op) ==
    IF op.op = "panel_select" THEN { op.arg[i] : i \in DOMAIN op.arg }
    ELSE IF op.arg = RawWedFri THEN {Wednesday, Friday}
    ELSE IF op.arg = RawMixed THEN {Wednesday, Friday}
    ELSE IF op.arg = RawFri THEN {Friday}
    ELSE {}

\* the ids of the users a day query returns
QueryIds(store, day) ==
    LET us == users_for_day(store, day) IN { us[i].id : i \in DOMAIN us }

\* "Wednesday" and "MONDAY", as a caller may spell the day of a query
WednesdayCap == <<"W","e","d","n","e","s","d","a","y">>
MondayCaps == <<"M","O","N","D","A","Y">>

C8_CanonicalDays ==
    \A k \in DOMAIN users :
        /\ \A i \in DOMAIN users[k].days : users[k].days[i] \in WeekDaySet
        /\ \A i, j \in DOMAIN users[k].days :
              users[k].days[i] = users[k].days[j] => i = j

\* user 1 typed "Wed, wednesday ,FRI,xyz" and has friday and wednesday stored,
\* once each, next to a user with all seven days
C8_Witness ==
    /\ lastOp.op = "availability_set"
    /\ lastOp.arg = RawMixed
    /\ \E k \in DOMAIN users :
          users[k].id = 1 /\ users[k].days = <<Friday, Wednesday>>
    /\ \E k \in DOMAIN users :
          users[k].id = 2 /\ Len(users[k].days) = 7

\* C10: clearing user u leaves the store with the same records in the same
\* order, every record of another user as it was, u's record with days empty
\* and team, roles, agents, timezone and display_name as they were, and no
\* day query returns u; when u has no record the store is as it was
C10_ClearUser ==
    [][lastOp'.op = "availability_clear" =>
          LET u == lastOp'.user
          IN  /\ Len(users') = Len(users)
              /\ \A k \in DOMAIN users :
                    /\ users'[k].id = users[k].id
                    /\ users[k].id # u => users'[k] = users[k]
                    /\ users[k].id = u =>
                          /\ users'[k].days = <<>>
                          /\ users'[k].team = users[k].team
                          /\ users'[k].roles = users[k].roles
                          /\ users'[k].agents = users[k].agents
                          /\ users'[k].timezone = users[k].timezone
                          /\ users'[k].display_name = users[k].display_name
              /\ (\A k \in DOMAIN users : users[k].id # u) => users' = users
              /\ \A d \in WeekDaySet : u \notin QueryIds(users', d)]_vars

\* user 1 cleared their week: the record has no days and still has its team,
\* roles, agents and timezone, and user 2 is still found on Monday
C10_Witness ==
    /\ lastOp.op = "availability_clear"
    /\ lastOp.user = 1
    /\ \E k \in DOMAIN users :
          /\ users[k].id = 1
          /\ users[k].days = <<>>
          /\ users[k].team = TeamB
          /\ users[k].roles # <<>>
          /\ users[k].agents # <<>>
          /\ users[k].timezone # None
    /\ 2 \in QueryIds(users, Monday)

\* C11: the weekly reset leaves the store with the same records in the same
\* order, each with days empty and with team, roles, agents, timezone and
\* display_name as they were; afterwards every day query is empty and
\* build_week reports total_available = 0 for all 7 days
C11_ResetAll ==
    [][lastOp'.op = "availability_resetweek" =>
          /\ Len(users') = Len(users)
          /\ \A k \in DOMAIN users :
                /\ users'[k].id = users[k].id
                /\ users'[k].days = <<>>
                /\ users'[k].team = users[k].team
                /\ users'[k].roles = users[k].roles
                /\ users'[k].agents = users[k].agents
                /\ users'[k].timezone = users[k].timezone
                /\ users'[k].display_name = users[k].display_name
          /\ \A d \in WeekDaySet : users_for_day(users', d) = <<>>
          /\ \A i \in DOMAIN WEEK_DAYS :
                build_week(users', cfg', HomeGuild, FALSE)[i].total_available = 0]_vars

\* the week was reset with two users stored: both records are still there
\* without days, and user 1 still has team, roles, agents and timezone
C11_Witness ==
    /\ lastOp.op = "availability_resetweek"
    /\ Len(users) = 2
    /\ \A k \in DOMAIN users : users[k].days = <<>>
    /\ \E k \in DOMAIN users :
          /\ users[k].id = 1
          /\ users[k].team = TeamB
          /\ users[k].roles # <<>>
          /\ users[k].agents # <<>>
          /\ users[k].timezone # None

\* ------------------------------------------------------------------------
\* Specification of the two stores under direct calls of their methods
\* ------------------------------------------------------------------------

\* AvailabilityStore.set_availability(user_id, display_name, team, days)
StoreSetAvailability(u, display_name, team, days) ==
    /\ users' = set_availability(users, u, display_name, team, days)
    /\ lastOp' = Op("set_availability", u,
                    [display_name |-> display_name, team |-> team, days |-> days])
    /\ UNCHANGED <<cfg, memberRoles, week, prevWeek>>
    /\ UNCHANGED taskVars

\* AvailabilityStore.set_agents(user_id, display_name, roles, agents)
StoreSetAgents(u, display_name, roles, agents) ==
    /\ users' = set_agents(users, u, display_name, roles, agents)
    /\ lastOp' = Op("set_agents", u, <<>>)
    /\ UNCHANGED <<cfg, memberRoles, week, prevWeek>>
    /\ UNCHANGED taskVars

\* AvailabilityStore.set_user_timezone(user_id, timezone)
StoreSetUserTimezone(u, timezone) ==
    /\ users' = set_user_timezone(users, u, timezone)
    /\ lastOp' = Op("set_user_timezone", u, <<>>)
    /\ UNCHANGED <<cfg, memberRoles, week, prevWeek>>
    /\ UNCHANGED taskVars

\* a display name a member changed to
Renamed == <<"renamed">>

\* "FRIDAY"
FridayCaps == <<"F","R","I","D","A","Y">>

\* the day lists a caller passes to the store
StoreDayInputs == {<<Monday>>, <<FridayCaps, Friday>>}

NextStore ==
    \/ \E u \in Users :
          \E name \in {NameOf(u), Renamed}, team \in {None, TeamA},
             days \in StoreDayInputs :
             StoreSetAvailability(u, name, team, days)
    \/ \E u \in RichUsers, roles \in RoleInputs :
          StoreSetAgents(u, NameOf(u), roles, <<Omen, Jett>>)
    \/ \E u \in RichUsers, tz \in TimezoneInputs : StoreSetUserTimezone(u, tz)

SpecStore == Init /\ [][NextStore]_vars

\* C12: set_availability(u, name, team, days) leaves every other record as
\* it was and adds no record but u's; u's record then has the given
\* display_name and team and the given days (lower-cased, once each), and
\* the roles, agents and timezone it had before, roles and agents being
\* empty lists when u had none
C12_SetAvailabilityOverwrites ==
    [][lastOp'.op = "set_availability" =>
          LET u   == lastOp'.user
              a   == lastOp'.arg
              old == { k \in DOMAIN users : users[k].id = u }
              new == { k \in DOMAIN users' : users'[k].id = u }
          IN  /\ Cardinality(new) = 1
              /\ Len(users') = Len(users) + (IF old = {} THEN 1 ELSE 0)
              /\ \A k \in DOMAIN users : users[k].id # u => users'[k] = users[k]
              /\ \A k \in new :
                    /\ users'[k].display_name = a.display_name
                    /\ users'[k].team = a.team
                    /\ { users'[k].days[i] : i \in DOMAIN users'[k].days }
                          = { Lower(a.days[i]) : i \in DOMAIN a.days }
                    /\ \A i, j \in DOMAIN users'[k].days :
                          users'[k].days[i] = users'[k].days[j] => i = j
                    /\ old = {} =>
                          /\ users'[k].roles = <<>>
                          /\ users'[k].agents = <<>>
                          /\ "timezone" \notin users'[k].keys
                    /\ \A o \in old :
                          /\ users'[k].roles = users[o].roles
                          /\ users'[k].agents = users[o].agents
                          /\ users'[k].timezone = users[o].timezone
                          /\ ("timezone" \in users'[k].keys)
                                <=> ("timezone" \in users[o].keys)]_vars

\* user 1, who had roles, agents and a timezone stored and was on Team A for
\* Monday, was saved again as "renamed" without a team for "FRIDAY", "friday":
\* the record has the new name, no team, friday once, and the old roles,
\* agents and timezone; user 2 is stored as well
C12_Witness ==
    /\ lastOp.op = "set_availability"
    /\ lastOp.user = 1
    /\ lastOp.arg.display_name = Renamed
    /\ lastOp.arg.days = <<FridayCaps, Friday>>
    /\ Len(users) = 2
    /\ \E k \in DOMAIN users :
          /\ users[k].id = 1
          /\ users[k].display_name = Renamed
          /\ users[k].team = None
          /\ users[k].days = <<Friday>>
          /\ users[k].roles = <<Controller, Sentinel>>
          /\ users[k].agents # <<>>
          /\ users[k].timezone # None

\* ------------------------------------------------------------------------
\* Properties of the guild config store
\* ------------------------------------------------------------------------

\* Wednesday to Sunday
ActiveByDefault == {Wednesday, Thursday, Friday, Saturday, Sunday}

\* what the getters return for guild g from config store c is the documented
\* default: premier window and scrim time set exactly Wednesday to Sunday,
\* practice off and no map on any day
ReadsDefaults(c, g) ==
    \A d \in WeekDaySet :
        /\ get_premier_window(c, g, d) # None <=> d \in ActiveByDefault
        /\ get_scrim_time(c, g, d) # None <=> d \in ActiveByDefault
        /\ get_practice_time(c, g, d) = None
        /\ get_scrim_map(c, g, d) = None
        /\ get_premier_map(c, g, d) = None
        /\ get_practice_map(c, g, d) = None

\* C13: for a guild without a stored entry the getters return the
\* documented defaults (premier window and scrim time set exactly for
\* Wednesday to Sunday, practice off all week, no maps), and when build_week
\* is the first access, the entry it creates reads the same and its
\* summaries show those windows and times
C13_FirstAccessDefaults ==
    [][\A g \in Guilds :
          cfg[g] = NoGuild =>
              /\ ReadsDefaults(cfg, g)
              /\ (lastOp'.op = "build_week" /\ week'.guild = g) =>
                    /\ cfg'[g] # NoGuild
                    /\ ReadsDefaults(cfg', g)
                    /\ \A i \in DOMAIN week'.result :
                          LET s == week'.result[i]
                          IN  /\ s.premier_window # None <=> s.day \in ActiveByDefault
                              /\ s.scrim_time # None <=> s.day \in ActiveByDefault
                              /\ s.practice_time = None
                              /\ s.premier_map = None
                              /\ s.scrim_map = None
                              /\ s.practice_map = None]_vars

\* build_week was the first access of guild 2: its entry exists, Tuesday has
\* neither window nor scrim time, Wednesday and Sunday have both, and guild 1
\* has still no entry
C13_Witness ==
    /\ lastOp.op = "build_week"
    /\ week # NoCall
    /\ week.guild = 2
    /\ prevWeek = NoCall
    /\ cfg[2] # NoGuild
    /\ cfg[1] = NoGuild
    /\ week.result[2].premier_window = None
    /\ week.result[2].scrim_time = None
    /\ week.result[3].premier_window # None
    /\ week.result[3].scrim_time # None
    /\ week.result[7].premier_window # None
    /\ week.result[7].practice_time = None

\* ------------------------------------------------------------------------
\* Specification of the guild config store under direct calls of its
\* per-day setters
\* ------------------------------------------------------------------------

\* the per-day setters that store one value per day
DaySetters == {"set_scrim_time", "set_premier_window", "set_practice_time",
               "set_scrim_map", "set_premier_map", "set_practice_map"}

\* what a setter call leaves in the history: its guild, its day and whether
\* it raised ValueError
SetterCall(g, day) == [guild |-> g, day |-> day, raised |-> ~ValidDay(day)]

\* GuildConfigStore.set_scrim_time(guild_id, day, value) and its five
\* siblings
StoreSetDay(setter, g, day, value) ==
    /\ cfg' = CASE setter = "set_scrim_time"     -> set_scrim_time(cfg, g, day, value)
                [] setter = "set_premier_window" -> set_premier_window(cfg, g, day, value)
                [] setter = "set_practice_time"  -> set_practice_time(cfg, g, day, value)
                [] setter = "set_scrim_map"      -> set_scrim_map(cfg, g, day, value)
                [] setter = "set_premier_map"    -> set_premier_map(cfg, g, day, value)
                [] setter = "set_practice_map"   -> set_practice_map(cfg, g, day, value)
    /\ lastOp' = Op(setter, 0, SetterCall(g, day))
    /\ UNCHANGED <<users, memberRoles, week, prevWeek>>
    /\ UNCHANGED taskVars

\* GuildConfigStore.set_locked_lineup(guild_id, day, player_ids)
StoreSetLockedLineup(g, day, player_ids) ==
    /\ cfg' = set_locked_lineup(cfg, g, day, player_ids, Premier)
    /\ lastOp' = Op("set_locked_lineup", 0, SetterCall(g, day))
    /\ UNCHANGED <<users, memberRoles, week, prevWeek>>
    /\ UNCHANGED taskVars

\* "fri", which the store does not take for a day
Fri == <<"f","r","i">>

\* "Funday"
Funday == <<"F","u","n","d","a","y">>

\* the days a caller passes to a setter
SetterDayInputs == {Friday, FridayCaps, Fri, Funday}

\* the value each setter is called with
SetterValue(setter) ==
    CASE setter \in {"set_scrim_time", "set_practice_time"} -> T1830
      [] setter = "set_premier_window" -> W1920
      [] OTHER -> <<"Ascent">>

NextConfig ==
    \/ \E setter \in DaySetters, day \in SetterDayInputs :
          StoreSetDay(setter, HomeGuild, day, SetterValue(setter))
    \/ \E day \in SetterDayInputs :
          StoreSetLockedLineup(HomeGuild, day, <<11, 12, 13, 14, 15>>)

SpecConfig == Init /\ [][NextConfig]_vars

\* everything the getters of config store c return for guild g and day d
ConfigReads(c, g, d) ==
    <<get_scrim_time(c, g, d), get_premier_window(c, g, d),
      get_practice_time(c, g, d), get_scrim_map(c, g, d),
      get_premier_map(c, g, d), get_practice_map(c, g, d),
      get_locked_lineup(c, g, d, Premier), get_team_roles(c, g)>>

\* C14: a call of set_scrim_time, set_premier_window, set_practice_time,
\* set_scrim_map, set_premier_map, set_practice_map or set_locked_lineup with
\* a day that, lower-cased, is none of the 7 day names raises ValueError and
\* leaves what every getter returns, for every guild and day, as it was
C14_InvalidDayRejected ==
    [][(/\ lastOp'.op \in DaySetters \cup {"set_locked_lineup"}
        /\ Lower(lastOp'.arg.day) \notin
              {Monday, Tuesday, Wednesday, Thursday, Friday, Saturday, Sunday})
       => /\ lastOp'.arg.raised
          /\ \A g \in Guilds, d \in WeekDaySet \cup SetterDayInputs :
                ConfigReads(cfg', g, d) = ConfigReads(cfg, g, d)]_vars

\* set_locked_lineup was just refused for "fri" in a guild where a scrim
\* time, a map and a locked lineup for Friday were stored before
C14_Witness ==
    /\ lastOp.op = "set_locked_lineup"
    /\ lastOp.arg.day = Fri
    /\ lastOp.arg.raised
    /\ get_scrim_time(cfg, HomeGuild, Friday) = T1830
    /\ get_scrim_map(cfg, HomeGuild, Friday) # None
    /\ get_locked_lineup(cfg, HomeGuild, Friday, Premier) # <<>>
    /\ get_locked_lineup(cfg, HomeGuild, Fri, Premier) = <<>>

\* ------------------------------------------------------------------------
\* Specification of the lineup suggestions, over loaded availability files
\* whose users have roles
\* ------------------------------------------------------------------------

\* the kinds of roster a loaded file holds
RosterKinds == {"cover", "same", "teams"}

\* team and roles of the i-th user of a roster:
\*   cover: all on Team A, one role each, going round the four roles
\*   same:  no team, the first five are controllers, the others have no role
\*   teams: five on Team A of whom one has a role, the others on Team B with
\*          two roles each
RosterMember(kind, i) ==
    CASE kind = "cover" -> [team |-> TeamA, roles |-> <<ROLE_PRIORITY[((i + 2) % 4) + 1]>>]
      [] kind = "same"  -> [team |-> None,
                            roles |-> IF i <= 5 THEN <<Controller>> ELSE <<>>]
      [] kind = "teams" -> IF i <= 5
                           THEN [team |-> TeamA,
                                 roles |-> IF i = 1 THEN <<Duelist>> ELSE <<>>]
                           ELSE [team |-> TeamB, roles |-> <<Controller, Sentinel>>]

\* _data["users"] after _load of a file with the first n users of a roster,
\* all available all week, in the order of their keys
RosterStore(kind, n) ==
    LET keys == SortedStrs({ DecStr(NumUsers + i) : i \in 1..n })
    IN  [k \in DOMAIN keys |->
            LET uid == IntVal(keys[k])
                m   == RosterMember(kind, uid - NumUsers)
            IN  [CrowdEntry(uid, m.team) EXCEPT !.roles = m.roles]]

\* the players build_week hands to _suggest_lineup for a day
PlayersOn(store, day) ==
    LET us == users_for_day(store, day) IN [i \in DOMAIN us |-> PlayerOf(us[i])]

\* ScheduleBuilder._suggest_lineup(players, target_team), called on the
\* players of Friday
SuggestLineup(target_team) ==
    /\ lastOp' = Op("_suggest_lineup", 0,
                    [players     |-> PlayersOn(users, Friday),
                     target_team |-> target_team,
                     result      |-> _suggest_lineup(PlayersOn(users, Friday),
                                                     target_team)])
    /\ UNCHANGED <<users, cfg, memberRoles, week, prevWeek>>
    /\ UNCHANGED taskVars

InitLineup ==
    /\ users \in { RosterStore(kind, n) : kind \in RosterKinds, n \in 0..MaxRoster }
    /\ cfg = [g \in Guilds |-> NoGuild]
    /\ memberRoles = [u \in Users |-> {}]
    /\ week = NoCall
    /\ prevWeek = NoCall
    /\ lastOp = Op("init", 0, <<>>)
    /\ TaskInit

NextLineup ==
    \/ \E team \in TeamInputs : AvailabilitySet(1, RawFri, team)
    \/ \E roles \in RoleInputs : AgentsSet(1, roles, <<Omen, Jett>>)
    \/ BuildWeek(HomeGuild, TRUE)
    \/ \E target_team \in {None, TeamA, TeamB} : SuggestLineup(target_team)

SpecLineup == InitLineup /\ [][NextLineup]_vars

\* ------------------------------------------------------------------------
\* Properties of the lineup suggestions
\* ------------------------------------------------------------------------

\* the calls of _suggest_lineup whose result the state holds: the direct
\* call last made, and the calls of the last build_week, one for each day
\* that got a suggestion
LineupCalls ==
    (IF lastOp.op = "_suggest_lineup" THEN {lastOp.arg} ELSE {})
    \cup
    (IF week # NoCall
     THEN { [players     |-> PlayersOn(users, week.result[i].day),
             target_team |-> week.result[i].premier_team,
             result      |-> week.result[i].lineup_suggestion] :
               i \in { j \in DOMAIN week.result :
                          week.result[j].lineup_suggestion # NoLineup } }
     ELSE {})

\* the roles of the players on a list
RolesHeld(players) ==
    UNION { { players[i].roles[j] : j \in DOMAIN players[i].roles } :
               i \in DOMAIN players }

\* the four role categories
RoleCategories ==
    { <<"c","o","n","t","r","o","l","l","e","r">>,
      <<"s","e","n","t","i","n","e","l">>,
      <<"i","n","i","t","i","a","t","o","r">>,
      <<"d","u","e","l","i","s","t">> }

\* C15: in every lineup suggestion at most 5 players are selected, no
\* player twice, each from the players the call was given; missing_roles
\* lists, once each, exactly the role categories that no selected player
\* holds; is_complete iff 5 are selected; has_all_roles iff missing_roles is
\* empty
C15_LineupShape ==
    \A c \in LineupCalls :
        LET sel  == c.result.players
            miss == c.result.missing_roles
        IN  /\ Len(sel) <= 5
            /\ \A i, j \in DOMAIN sel : sel[i].user_id = sel[j].user_id => i = j
            /\ \A i \in DOMAIN sel : \E k \in DOMAIN c.players : c.players[k] = sel[i]
            /\ { miss[i] : i \in DOMAIN miss } = RoleCategories \ RolesHeld(sel)
            /\ \A i, j \in DOMAIN miss : miss[i] = miss[j] => i = j
            /\ c.result.is_complete <=> Len(sel) = 5
            /\ c.result.has_all_roles <=> miss = <<>>

\* _suggest_lineup was called on four players who cover the four roles (all
\* selected, not complete, nothing missing) after a build_week whose Friday
\* had no suggestion
C15_Witness ==
    /\ lastOp.op = "_suggest_lineup"
    /\ Len(lastOp.arg.players) = 4
    /\ Len(lastOp.arg.result.players) = 4
    /\ ~lastOp.arg.result.is_complete
    /\ lastOp.arg.result.has_all_roles
    /\ week # NoCall
    /\ week.result[5].lineup_suggestion = NoLineup

\* the players of a list that are on team t
PlayersOfTeam(players, t) == { k \in DOMAIN players : players[k].team = t }

\* C16: when _suggest_lineup is given a target team that 5 or more of the
\* players belong to, every selected player is on that team; otherwise the
\* selection is made from all the players given, as without a target team;
\* and in build_week with suggestions, on a day whose premier_team is T
\* every player of the suggested lineup is on team T
C16_TargetTeamPool ==
    /\ \A c \in LineupCalls :
          LET sel == c.result.players
              T   == c.target_team
          IN  IF T # None /\ Cardinality(PlayersOfTeam(c.players, T)) >= 5
              THEN \A i \in DOMAIN sel : sel[i].team = T
              ELSE /\ c.result = _suggest_lineup(c.players, None)
                   /\ Len(sel) = IF Len(c.players) >= 5 THEN 5 ELSE Len(c.players)
    /\ week # NoCall =>
          \A i \in DOMAIN week.result :
              LET s == week.result[i]
              IN  (s.premier_team # None /\ s.lineup_suggestion # NoLineup) =>
                      \A k \in DOMAIN s.lineup_suggestion.players :
                          s.lineup_suggestion.players[k].team = s.premier_team

\* build_week chose Team A for Friday's premier and suggested five Team A
\* players although two Team B players with two roles each are available,
\* and a direct call with target Team B, which has only those two, selected
\* from everyone
C16_Witness ==
    /\ week # NoCall
    /\ week.result[5].premier_team = TeamA
    /\ week.result[5].lineup_suggestion # NoLineup
    /\ Cardinality(PlayersOfTeam(PlayersOn(users, Friday), TeamB)) = 2
    /\ \A k \in PlayersOfTeam(PlayersOn(users, Friday), TeamB) :
          PlayersOn(users, Friday)[k].roles = <<Controller, Sentinel>>
    /\ lastOp.op = "_suggest_lineup"
    /\ lastOp.arg.target_team = TeamB
    /\ \E i \in DOMAIN lastOp.arg.result.players :
          lastOp.arg.result.players[i].team = TeamA

\* the candidates of a call: the players of the target team when it has 5
\* or more of them, all players otherwise
PoolOf(c) ==
    IF c.target_team # None
       /\ Cardinality(PlayersOfTeam(c.players, c.target_team)) >= 5
    THEN { c.players[k] : k \in PlayersOfTeam(c.players, c.target_team) }
    ELSE { c.players[k] : k \in DOMAIN c.players }

\* the roles of one player
RolesOf(p) == { p.roles[j] : j \in DOMAIN p.roles }

\* the i-th selected player brought a role that none of the players selected
\* before held
BroughtNewRole(sel, i) == ~(RolesOf(sel[i]) \subseteq RolesHeld(SubSeq(sel, 1, i - 1)))

\* the candidates left unselected
Unselected(c) == PoolOf(c) \ { c.result.players[i] : i \in DOMAIN c.result.players }

\* each of the 5 players holds exactly one role and together they hold the
\* four role categories
FiveCoverFour(players) ==
    /\ Len(players) = 5
    /\ \A k \in DOMAIN players : Len(players[k].roles) = 1
    /\ RolesHeld(players) = RoleCategories

\* with such 5 players: the first four selected hold four different roles,
\* the fifth is the one left, and no role is missing
FourUniqueFirst(c) ==
    FiveCoverFour(c.players) =>
        /\ Len(c.result.players) = 5
        /\ RolesHeld(SubSeq(c.result.players, 1, 4)) = RoleCategories
        /\ ~BroughtNewRole(c.result.players, 5)
        /\ c.result.missing_roles = <<>>

\* C17 as stated: every selected player either brought a new role when
\* taken or scores at least as high as every candidate left unselected; and
\* with 5 candidates covering the four roles the four unique-role holders
\* come first and no role is missing
C17_NewRoleOrTopScore ==
    \A c \in LineupCalls :
        /\ \A i \in DOMAIN c.result.players :
              \/ BroughtNewRole(c.result.players, i)
              \/ \A p \in Unselected(c) :
                    role_score(c.result.players[i]) >= role_score(p)
        /\ FourUniqueFirst(c)

\* the i-th selected player was taken by the first pass: it has no role at
\* all or brought a new one
TakenFirst(sel, i) == sel[i].roles = <<>> \/ BroughtNewRole(sel, i)

\* C17, amended: the heuristic first takes, in descending score order, the
\* candidates who bring a role not yet covered and the candidates who have
\* no role at all, then fills the remaining slots with the next-highest
\* scoring unchosen candidates: the players of the first kind come first,
\* each kind is in descending score order, and every selected player either
\* brought a new role, or has no role, or scores at least as high as every
\* candidate left unselected; with 5 candidates covering the four roles the
\* four unique-role holders come first and no role is missing
C17_GreedyThenFill ==
    \A c \in LineupCalls :
        LET sel == c.result.players
        IN  /\ \A i \in DOMAIN sel :
                  \/ TakenFirst(sel, i)
                  \/ \A p \in Unselected(c) : role_score(sel[i]) >= role_score(p)
            /\ \A i, j \in DOMAIN sel :
                  i < j =>
                      /\ TakenFirst(sel, j) => TakenFirst(sel, i)
                      /\ (TakenFirst(sel, i) <=> TakenFirst(sel, j)) =>
                            role_score(sel[i]) >= role_score(sel[j])
            /\ FourUniqueFirst(c)

\* build_week suggested Friday's lineup from five controllers and a player
\* without roles: the player without roles is second, three more
\* controllers fill the lineup and one controller is left out; and a direct
\* call on the same six gave the same
C17_Witness ==
    /\ week # NoCall
    /\ week.result[5].lineup_suggestion # NoLineup
    /\ Len(PlayersOn(users, Friday)) = 6
    /\ LET sel == week.result[5].lineup_suggestion.players
       IN  /\ sel[1].roles = <<Controller>>
           /\ sel[2].roles = <<>>
           /\ sel[3].roles = <<Controller>>
           /\ sel[5].roles = <<Controller>>
    /\ lastOp.op = "_suggest_lineup"
    /\ lastOp.arg.result = week.result[5].lineup_suggestion

\* ------------------------------------------------------------------------
\* bot.py: RoleSyncCog, the reminder task
\* ------------------------------------------------------------------------

\* ANNOUNCEMENT_CHANNEL_ID of the environment: not set
ANNOUNCEMENT_CHANNEL_ID_ENV == NoId

\* the text channel of the guild, and a channel that was deleted since
TextChannel    == 700
DeletedChannel == 701

\* the ids guild.get_channel finds
GuildChannels == {TextChannel}

\* kinds of reminder: _maybe_ping_scrim_for_guild, _maybe_ping_practice_for_guild
ReminderKinds == {"scrim", "practice"}

\* ticks of the reminder task a behaviour holds
MaxTicks == 22

\* the clock when the bot starts: Monday (date 0) 22:50, up to 4 minutes later
StartMinute == 22 * 60 + 50
Phases == 0..4

\* minutes since date 0, 00:00
Absolute(nw) == nw.date * (24 * 60) + nw.minute

\* datetime.now() n minutes after nw
Advance(nw, n) ==
    [date   |-> (Absolute(nw) + n) \div (24 * 60),
     minute |-> (Absolute(nw) + n) % (24 * 60)]

\* ticks of the 5 minute loop since the start
Ticks(nw) == (Absolute(nw) - StartMinute) \div 5

\* WEEK_DAYS[datetime.now().weekday()]
_resolve_today_label(nw) == WEEK_DAYS[(nw.date % 7) + 1]

\* minutes after midnight of a parsed time
MinuteOfDay(t) == t[1] * 60 + t[2]

\* the time label a reminder reads for today
ReminderTime(c, g, kind, today) ==
    IF kind = "scrim" THEN get_scrim_time(c, g, today)
    ELSE get_practice_time(c, g, today)

\* a cog that does not remember the reminders it sent
PingSentForgotten(co, kind) == [g \in Guilds |-> NoDate]

\* the dates of the last reminders: _scrim_ping_sent, _practice_ping_sent
PingSent(co, kind) ==
    IF kind = "scrim" THEN co._scrim_ping_sent ELSE co._practice_ping_sent

\* scrim: users, and by_team or by_total; practice: total >= 5
ReminderThreshold(kind, us) ==
    IF kind = "scrim"
    THEN /\ Len(us) # 0
         /\ \/ \E t \in Range(TeamOrder) : TeamCounts(us)[t] >= 5
            \/ Len(us) >= 10
    ELSE Len(us) >= 5

\* _maybe_ping_*_for_guild reaches channel.send: no early return was taken
PingDue(store, c, co, nw, g, kind) ==
    LET today      == _resolve_today_label(nw)
        label      == ReminderTime(c, g, kind, today)
        t          == _parse_hhmm_to_time(label)
        delta      == MinuteOfDay(t) - nw.minute
        channel_id == OrId(get_announcement_channel(c, g), ANNOUNCEMENT_CHANNEL_ID_ENV)
    IN  /\ label # None
        /\ t # NoTime
        /\ PingSent(co, kind)[g] # nw.date
        /\ 25 <= delta /\ delta <= 35
        /\ ReminderThreshold(kind, users_for_day(store, today))
        /\ channel_id # NoId
        /\ channel_id \in GuildChannels

\* one iteration of scrim_ping_task, 5 minutes after the last: for every
\* guild the scrim and the practice check; ok[kind] tells whether the
\* platform accepts a send of that kind (HTTPException otherwise).
\* channel collects the sends that were attempted.
scrim_ping_task(ok) ==
    LET nw == Advance(now, 5)
        due(g, kind) == PingDue(users, cfg, cog, nw, g, kind)
        stamp(g, kind) ==
            IF due(g, kind) /\ ok[kind] THEN nw.date ELSE PingSent(cog, kind)[g]
    IN  /\ Ticks(now) < MaxTicks
        /\ now' = nw
        /\ cfg' = [g \in Guilds |-> GuildDict(cfg, g)]
        /\ cog' = [cog EXCEPT
                     !._scrim_ping_sent    = [g \in Guilds |-> stamp(g, "scrim")],
                     !._practice_ping_sent = [g \in Guilds |-> stamp(g, "practice")]]
        /\ channel' = channel \cup
              { [guild |-> p[1], kind |-> p[2], date |-> nw.date,
                 minute |-> nw.minute, ok |-> ok[p[2]]] :
                p \in { q \in Guilds \X ReminderKinds : due(q[1], q[2]) } }
        /\ lastOp' = Op("scrim_ping_task", 0, ok)
        /\ UNCHANGED <<users, memberRoles, week, prevWeek, logs>>

\* /premier reminders enabled:<Enable|Disable>
PremierReminders(g, enabled, may_manage) ==
    /\ IF may_manage
       THEN cfg' = set_reminders_enabled(cfg, g, enabled) /\ Wrote
       ELSE UNCHANGED <<cfg, week, prevWeek>>
    /\ lastOp' = Op("premier_reminders", 0, [guild |-> g, enabled |-> enabled,
                                              denied |-> ~may_manage])
    /\ UNCHANGED <<users, memberRoles>>
    /\ UNCHANGED taskVars

T0010 == <<"0","0",":","1","0">>
T0030 == <<"0","0",":","3","0">>
T2330 == <<"2","3",":","3","0">>

\* guild_config.json as _load finds it: one time for every day of the week
LoadedGuild(scrim_time, practice_time, channel_id) ==
    [NewGuild EXCEPT !.scrim_times    = [d \in WeekDaySet |-> scrim_time],
                     !.practice_times = [d \in WeekDaySet |-> practice_time],
                     !.announcement_channel_id = channel_id]

InitReminder ==
    /\ users \in { LoadedStore(5, 0, 0), LoadedStore(4, 0, 0) }
    /\ \E scrim_time \in {T2330, T0010}, practice_time \in {None, T0030},
          channel_id \in {TextChannel, DeletedChannel} :
          cfg = [g \in Guilds |->
                   IF g = HomeGuild
                   THEN LoadedGuild(scrim_time, practice_time, channel_id)
                   ELSE NoGuild]
    /\ memberRoles = [u \in Users |-> {}]
    /\ week = NoCall
    /\ prevWeek = NoCall
    /\ lastOp = Op("init", 0, <<>>)
    /\ \E phase \in Phases : now = [date |-> 0, minute |-> StartMinute + phase]
    /\ cog = NewCog
    /\ channel = {}
    /\ logs = [g \in Guilds |-> <<>>]

NextReminder ==
    \/ \E ok \in [ReminderKinds -> BOOLEAN] : scrim_ping_task(ok)
    \/ \E enabled \in BOOLEAN, may_manage \in BOOLEAN :
          PremierReminders(HomeGuild, enabled, may_manage)

SpecReminder == InitReminder /\ [][NextReminder]_vars

\* ------------------------------------------------------------------------
\* C18: while a guild's reminders are disabled with /premier reminders, the
\* reminder task sends no scrim or practice reminder to that guild.
\* ------------------------------------------------------------------------

\* the guild's reminders are switched off
RemindersOff(g) == cfg[g] # NoGuild /\ ~get_reminders_enabled(cfg, g)

\* C18: a tick that starts with a guild's reminders off sends that guild
\* no reminder
C18_DisabledSendsNothing ==
    [][\A g \in Guilds :
          RemindersOff(g) =>
             \A m \in channel' \ channel : ~(m.guild = g /\ m.ok)]_vars

\* ------------------------------------------------------------------------
\* C20: for every valid start time T configured for a day, if the player
\* threshold holds, the announcement channel resolves and sends succeed
\* while the task ticks, a reminder is sent at a tick between 35 and 25
\* minutes before T.
\* ------------------------------------------------------------------------

\* dates the clock of a behaviour reaches
ReminderDates == 0..1

\* minutes since date 0, 00:00 of the start time configured for date d,
\* -1 when the day has none or one that does not parse
TargetOf(g, kind, d) ==
    LET label == ReminderTime(cfg, g, kind, _resolve_today_label([date |-> d, minute |-> 0]))
        t     == _parse_hhmm_to_time(label)
    IN  IF label = None \/ t = NoTime THEN 0 - 1
        ELSE d * (24 * 60) + MinuteOfDay(t)

\* the reminder of that kind went out between 35 and 25 minutes before target
SentInWindow(g, kind, target) ==
    \E m \in channel :
        /\ m.guild = g /\ m.kind = kind /\ m.ok
        /\ target - 35 <= Absolute(m) /\ Absolute(m) <= target - 25

\* what the conditions of a reminder are on date d: a start time, the player
\* threshold, a channel that resolves, no send that failed, and a task that
\* ticked from before the end of the window until after it
ReminderConditions(g, kind, d) ==
    /\ TargetOf(g, kind, d) >= 0
    /\ ReminderThreshold(kind,
          users_for_day(users, _resolve_today_label([date |-> d, minute |-> 0])))
    /\ get_announcement_channel(cfg, g) \in GuildChannels
    /\ \A m \in channel : m.ok
    /\ StartMinute + 9 <= TargetOf(g, kind, d) - 25
    /\ Absolute(now) >= TargetOf(g, kind, d) - 25

\* C20: once the window before a start time has passed under the conditions
\* of a reminder, the reminder was sent in that window
C20_SentInWindow ==
    \A g \in Guilds, kind \in ReminderKinds, d \in ReminderDates :
        ReminderConditions(g, kind, d) => SentInWindow(g, kind, TargetOf(g, kind, d))

\* the same for start times of 00:35 and later, whose window lies within
\* the day of the activity
C20_LateStartSentInWindow ==
    \A g \in Guilds, kind \in ReminderKinds, d \in ReminderDates :
        /\ ReminderConditions(g, kind, d)
        /\ TargetOf(g, kind, d) - 35 >= d * (24 * 60)
        => SentInWindow(g, kind, TargetOf(g, kind, d))

\* ------------------------------------------------------------------------
\* bot.py: RoleSyncCog, the role sync task
\* ------------------------------------------------------------------------

\* AVAILABLE_ROLE_ID of the environment: not set
AVAILABLE_ROLE_ID_ENV == NoId

\* the role /config pingrole names as the available role
AvailRole == 503

\* the ids guild.get_role finds
GuildRoles == {RoleA, RoleB, AvailRole}

\* guild.members, in the order the loop visits them
GuildMembers == [i \in 1..NumUsers |-> i]

\* WEEK_DAYS.index(AUTO_RESET_DAY_ENV) and AUTO_RESET_HOUR_ENV, both at
\* their defaults: monday, 8
_target_weekday_index == 0
AUTO_RESET_HOUR_ENV   == 8

\* ticks of the role sync task a behaviour holds
MaxSyncTicks == 3

\* the clock when the bot starts: 07:20, on Monday (date 0) or Tuesday
SyncStart == 7 * 60 + 20
SyncStartDates == {0, 1}

\* ticks of the 30 minute loop since the start
SyncTicks(nw) == (nw.minute - SyncStart) \div 30

_resolve_ping_role_id(c, g) == OrId(get_ping_role(c, g), AVAILABLE_ROLE_ID_ENV)

\* a reset that is due on every day of the week
ShouldResetAnyDay(co, nw) ==
    /\ nw.minute \div 60 >= 8
    /\ co._last_reset_date # nw.date

\* should_reset of role_sync_task
should_reset(co, nw) ==
    /\ nw.date % 7 = _target_weekday_index
    /\ nw.minute \div 60 >= AUTO_RESET_HOUR_ENV
    /\ co._last_reset_date = NoDate \/ co._last_reset_date # nw.date

\* {int(u["id"]) for u in users_for_day(today)}
AllowedIds(store, today) ==
    { users_for_day(store, today)[i].id : i \in DOMAIN users_for_day(store, today) }

\* _sync_roles_for_guild at its start: the pass returns at once without a
\* role, else it holds the snapshot today_users / allowed_ids it works from.
\* failed, calls and synced_before record the pass for the properties:
\* whether a platform call failed, the calls made, and whether the role was
\* held by exactly the allowed members when the pass began.
StartPass(store, c, roles, g, today) ==
    LET role_id == _resolve_ping_role_id(c, g)
        us      == users_for_day(store, today)
    IN  IF role_id = NoId \/ role_id \notin GuildRoles
        THEN NoPass
        ELSE [phase |-> "add", role |-> role_id,
              today_users |-> [k \in DOMAIN us |-> us[k].id],
              allowed_ids |-> AllowedIds(store, today), i |-> 1,
              failed |-> FALSE, calls |-> {},
              synced_before |->
                 \A m \in Users : role_id \in roles[m] <=> m \in AllowedIds(store, today)]

\* the add loop: member and role not in member.roles
NeedsAdd(roles, role, uid) == uid \in Users /\ role \notin roles[uid]

\* a remove loop that never takes the role back
NeedsRemoveNever(roles, role, allowed_ids, m) == FALSE

\* the remove loop: role in member.roles and member.id not in allowed_ids
NeedsRemove(roles, role, allowed_ids, m) == role \in roles[m] /\ m \notin allowed_ids

\* index of the next entry of today_users the add loop calls add_roles for,
\* 0 when the loop is through
NextAdd(p, roles) ==
    LET js == { j \in p.i..Len(p.today_users) : NeedsAdd(roles, p.role, p.today_users[j]) }
    IN  IF p.phase # "add" \/ js = {} THEN 0
        ELSE CHOOSE j \in js : \A k \in js : j <= k

\* index of the next member the remove loop calls remove_roles for, 0 when
\* the loop is through
NextRemove(p, roles) ==
    LET from == IF p.phase = "add" THEN 1 ELSE p.i
        js   == { j \in from..Len(GuildMembers) :
                    NeedsRemove(roles, p.role, p.allowed_ids, GuildMembers[j]) }
    IN  IF js = {} THEN 0 ELSE CHOOSE j \in js : \A k \in js : j <= k

\* the pass p runs on from where it stands to its next platform call, which
\* succeeds (ok) or raises HTTPException, or to its end; store and co are the
\* users and the cog it runs on. A role the platform changes comes back as
\* on_member_update.
RunPass(p, store, co, ok) ==
    LET a == NextAdd(p, memberRoles)
        r == NextRemove(p, memberRoles)
        called(op, m, i) ==
            [p EXCEPT !.phase = IF op = "add_roles" THEN "add" ELSE "remove",
                      !.i = i + 1,
                      !.failed = @ \/ ~ok,
                      !.calls = @ \cup {[op |-> op, member |-> m]}]
    IN  IF p.phase = "done"
        THEN /\ cog' = [co EXCEPT !.pass = p]
             /\ memberRoles' = memberRoles
             /\ users' = store
        ELSE IF a # 0
        THEN LET m == p.today_users[a]
                 after_ids == memberRoles[m] \cup {p.role}
             IN  /\ cog' = [co EXCEPT !.pass = called("add_roles", m, a)]
                 /\ memberRoles' = IF ok THEN [memberRoles EXCEPT ![m] = after_ids]
                                   ELSE memberRoles
                 /\ users' = IF ok THEN on_member_update(store, cfg, m, after_ids)
                             ELSE store
        ELSE IF r # 0
        THEN LET m == GuildMembers[r]
                 after_ids == memberRoles[m] \ {p.role}
             IN  /\ cog' = [co EXCEPT !.pass = called("remove_roles", m, r)]
                 /\ memberRoles' = IF ok THEN [memberRoles EXCEPT ![m] = after_ids]
                                   ELSE memberRoles
                 /\ users' = IF ok THEN on_member_update(store, cfg, m, after_ids)
                             ELSE store
        ELSE /\ cog' = [co EXCEPT !.pass = [p EXCEPT !.phase = "done"]]
             /\ memberRoles' = memberRoles
             /\ users' = store

\* the pass of the last tick is through (or no tick has run yet)
PassOver == cog.pass.phase = "done"

\* one iteration of role_sync_task, 30 minutes after the last: the weekly
\* reset when it is due, then _sync_roles_for_guild for the guilds, up to the
\* first platform call. Only HomeGuild has members in the model; the other
\* guild's pass finds nothing to do.
role_sync_task(ok) ==
    LET nw    == Advance(now, 30)
        reset == should_reset(cog, nw)
        store == IF reset THEN reset_all(users) ELSE users
        co    == IF reset THEN [cog EXCEPT !._last_reset_date = nw.date] ELSE cog
    IN  /\ PassOver
        /\ SyncTicks(now) < MaxSyncTicks
        /\ now' = nw
        /\ cfg' = [g \in Guilds |-> GuildDict(cfg, g)]
        /\ RunPass(StartPass(store, cfg, memberRoles, HomeGuild, _resolve_today_label(nw)),
                   store, co, ok)
        /\ lastOp' = Op("role_sync_task", 0, [reset |-> reset])
        /\ Wrote
        /\ UNCHANGED <<channel, logs>>

\* _sync_roles_for_guild resumes after a platform call
SyncResume(ok) ==
    /\ ~PassOver
    /\ RunPass(cog.pass, users, cog, ok)
    /\ cfg' = cfg
    /\ lastOp' = Op("_sync_roles_for_guild", 0, <<>>)
    /\ Wrote
    /\ UNCHANGED <<now, channel, logs>>

RawMon == <<"m","o","n">>

\* guild_config.json as _load finds it, with the available role set
LoadedRoleGuild(role_id) == [NewGuild EXCEPT !.ping_role_id = role_id]

\* a store with one user who is available all week and has left the guild;
\* every member may hold the available role from an earlier day
InitSync ==
    /\ users = LoadedStore(1, 0, 0)
    /\ \E role_id \in {AvailRole, NoId} :
          cfg = [g \in Guilds |->
                   IF g = HomeGuild THEN LoadedRoleGuild(role_id) ELSE NoGuild]
    /\ memberRoles \in [Users -> {{}, {AvailRole}}]
    /\ week = NoCall
    /\ prevWeek = NoCall
    /\ lastOp = Op("init", 0, <<>>)
    /\ \E d \in SyncStartDates : now = [date |-> d, minute |-> SyncStart]
    /\ cog = NewCog
    /\ channel = {}
    /\ logs = [g \in Guilds |-> <<>>]

NextSync ==
    \/ \E ok \in BOOLEAN : role_sync_task(ok)
    \/ \E ok \in BOOLEAN : SyncResume(ok)
    \/ \E u \in Users, raw \in {RawMon, RawFri} : AvailabilitySet(u, raw, None)
    \/ \E u \in Users : AvailabilityClear(u)

SpecSync == InitSync /\ [][NextSync]_vars

\* ------------------------------------------------------------------------
\* C19: a sync pass during which no availability changes and no platform
\* call fails ends with the available role held by exactly the guild members
\* who are available today; a further pass with no change in between adds
\* and removes no role.
\* ------------------------------------------------------------------------

\* the members who hold the role
Holders(role) == { m \in Users : role \in memberRoles[m] }

\* the pass of the last tick ran with a role and has just ended
PassEnded ==
    /\ cog.pass.phase = "done"
    /\ cog.pass.role # NoId
    /\ lastOp.op \in {"role_sync_task", "_sync_roles_for_guild"}

\* who is available today is who was when the pass took its snapshot
AvailabilityAsSnapshot ==
    AllowedIds(users, _resolve_today_label(now)) = cog.pass.allowed_ids

\* C19: a pass that ends with no call failed and the availability of its
\* snapshot leaves the role with exactly the members available today, and a
\* pass that began with the role in those hands makes no call
C19_SelfCorrects ==
    /\ PassEnded /\ ~cog.pass.failed /\ AvailabilityAsSnapshot
         => Holders(cog.pass.role)
               = Users \cap AllowedIds(users, _resolve_today_label(now))
    /\ PassEnded /\ cog.pass.synced_before => cog.pass.calls = {}

\* a pass that granted the role to one member and took it from another has
\* ended: member 1 is available today and holds the role, member 2 is not
\* and lost it, and the user who left the guild is available without it
C19_Witness ==
    /\ PassEnded /\ ~cog.pass.failed /\ AvailabilityAsSnapshot
    /\ cog.pass.calls = {[op |-> "add_roles", member |-> 1],
                         [op |-> "remove_roles", member |-> 2]}
    /\ Holders(AvailRole) = {1}
    /\ AllowedIds(users, _resolve_today_label(now)) = {1, NumUsers + 1}

\* ------------------------------------------------------------------------
\* C21: per guild and calendar date at most one scrim reminder and at most
\* one practice reminder are sent successfully; a send that fails does not
\* count as sent, and a later tick inside the window tries again.
\* ------------------------------------------------------------------------

\* the reminders of a kind that reached the guild on a date
Delivered(g, kind, d) ==
    { m \in channel : m.guild = g /\ m.kind = kind /\ m.date = d /\ m.ok }

\* the sends of a kind that failed for the guild on a date
Failed(g, kind, d) ==
    { m \in channel : m.guild = g /\ m.kind = kind /\ m.date = d /\ ~m.ok }

\* C21: no guild gets two reminders of a kind on one date, the date a
\* reminder is stamped with is one it was delivered on, and a tick at which
\* the conditions of a reminder hold and none was delivered today sends one
C21_OncePerDate ==
    [][/\ \A g \in Guilds, kind \in ReminderKinds, d \in ReminderDates :
             Cardinality({ m \in channel' : m.guild = g /\ m.kind = kind
                                            /\ m.date = d /\ m.ok }) <= 1
       /\ \A g \in Guilds, kind \in ReminderKinds :
             PingSent(cog', kind)[g] # NoDate =>
                \E m \in channel' : /\ m.guild = g /\ m.kind = kind /\ m.ok
                                    /\ m.date = PingSent(cog', kind)[g]
       /\ \A g \in Guilds, kind \in ReminderKinds :
             /\ now' # now
             /\ PingDue(users, cfg, NewCog, now', g, kind)
             /\ Delivered(g, kind, now'.date) = {}
             => \E m \in channel' : /\ m.guild = g /\ m.kind = kind
                                    /\ m.date = now'.date
                                    /\ m.minute = now'.minute]_vars

\* a scrim send failed and the next tick, still in the window, delivered
\* the reminder; a third tick in the window has passed without another
C21_Witness ==
    /\ Cardinality(Failed(HomeGuild, "scrim", 0)) = 1
    /\ Cardinality(Delivered(HomeGuild, "scrim", 0)) = 1
    /\ \E f \in Failed(HomeGuild, "scrim", 0), m \in Delivered(HomeGuild, "scrim", 0) :
          /\ m.minute = f.minute + 5
          /\ now = [date |-> 0, minute |-> m.minute + 5]
          /\ PingDue(users, cfg, NewCog, now, HomeGuild, "scrim")

\* ------------------------------------------------------------------------
\* bot.py: /schedule pingcheck
\* ------------------------------------------------------------------------

\* a pingcheck that looks at the total only
PingcheckTotalOnly(store, c, g, norm_day) ==
    LET us == users_for_day(store, norm_day)
    IN  [day |-> norm_day, total |-> Len(us),
         scrim_will_ping    |-> get_scrim_time(c, g, norm_day) # None /\ Len(us) >= 10,
         practice_will_ping |-> get_practice_time(c, g, norm_day) # None /\ Len(us) >= 5]

\* the block of one day: the counts and the two answers
PingcheckDay(store, c, g, norm_day) ==
    LET us          == users_for_day(store, norm_day)
        total       == Len(us)
        team_counts == TeamCounts(us)
        by_team     == \E t \in Range(TeamOrder) : team_counts[t] >= 5
        by_total    == total >= 10
    IN  [day |-> norm_day, total |-> total,
         scrim_will_ping    |-> get_scrim_time(c, g, norm_day) # None /\ (by_team \/ by_total),
         practice_will_ping |-> get_practice_time(c, g, norm_day) # None /\ total >= 5]

\* /schedule pingcheck days:<raw>
SchedulePingcheck(g, raw) ==
    /\ parse_days(raw) # <<>>
    /\ cfg' = _ensure_guild(cfg, g)
    /\ lastOp' = Op("schedule_pingcheck", 0,
                    [guild  |-> g,
                     blocks |-> [i \in DOMAIN parse_days(raw) |->
                                   PingcheckDay(users, cfg, g, parse_days(raw)[i])]])
    /\ UNCHANGED <<users, memberRoles, week, prevWeek>>
    /\ UNCHANGED taskVars

\* stores with up to ten users available all week: none, one team of four
\* or five, two teams of four, and two users without a team
PingStores ==
    { LoadedStore(nA, nB, nN) : nA \in {0, 4, 5}, nB \in {0, 4}, nN \in {0, 2} }

InitPing ==
    /\ users \in PingStores
    /\ cfg = [g \in Guilds |-> NoGuild]
    /\ memberRoles = [u \in Users |-> {}]
    /\ week = NoCall
    /\ prevWeek = NoCall
    /\ lastOp = Op("init", 0, <<>>)
    /\ TaskInit

NextPing ==
    \/ \E raw \in {RawMon, RawFri}, time_label \in {T1830, TBad, TOff} :
          ConfigScrimTime(HomeGuild, raw, time_label, TRUE)
    \/ \E raw \in {RawMon, RawFri}, time_label \in {T1830, TOff} :
          ConfigPracticeTime(HomeGuild, raw, time_label, TRUE)
    \/ \E raw \in {RawMon, RawFri, RawWedFri} : SchedulePingcheck(HomeGuild, raw)

SpecPing == InitPing /\ [][NextPing]_vars

\* ------------------------------------------------------------------------
\* C22: for every day /schedule pingcheck answers yes for scrim exactly
\* when the reminder task's player condition for a scrim reminder holds, and
\* yes for practice exactly when a practice time is configured and at least
\* 5 are available.
\* ------------------------------------------------------------------------

\* the conditions of _maybe_ping_*_for_guild that do not depend on the clock
\* or the channel: a time that is set and parses, and the player threshold
TaskPlayerCondition(g, kind, day) ==
    /\ ReminderTime(cfg, g, kind, day) # None
    /\ _parse_hhmm_to_time(ReminderTime(cfg, g, kind, day)) # NoTime
    /\ ReminderThreshold(kind, users_for_day(users, day))

\* C22: the answers of the last pingcheck are the reminder task's player
\* conditions on the same store and configuration
C22_PingcheckAgrees ==
    lastOp.op = "schedule_pingcheck" =>
        \A i \in DOMAIN lastOp.arg.blocks :
            LET b == lastOp.arg.blocks[i]
            IN  /\ b.scrim_will_ping
                     <=> TaskPlayerCondition(lastOp.arg.guild, "scrim", b.day)
                /\ b.practice_will_ping
                     <=> TaskPlayerCondition(lastOp.arg.guild, "practice", b.day)

\* a pingcheck of wednesday and friday on a store with one team of five and
\* nobody else: yes for the scrim by team on both days, yes for practice on
\* friday only, where a practice time was set
C22_Witness ==
    /\ lastOp.op = "schedule_pingcheck"
    /\ Len(lastOp.arg.blocks) = 2
    /\ lastOp.arg.blocks[1].total = 5
    /\ lastOp.arg.blocks[1].scrim_will_ping
    /\ ~lastOp.arg.blocks[1].practice_will_ping
    /\ lastOp.arg.blocks[2].scrim_will_ping
    /\ lastOp.arg.blocks[2].practice_will_ping

\* ------------------------------------------------------------------------
\* C23: while the process runs, the periodic task resets all availability
\* only at a tick on the reset weekday at or after the reset hour, at most
\* once per calendar date; availability saved after that day's reset
\* survives the later ticks of the day, and on a reset day a reset happens.
\* ------------------------------------------------------------------------

\* the days every user has stored
StoredDays(store) == { <<store[i].id, store[i].days>> : i \in DOMAIN store }

\* the step is a tick of role_sync_task
SyncTick == now' # now /\ lastOp'.op = "role_sync_task"

\* the step is a tick that ran the weekly reset
ResetTick == SyncTick /\ lastOp'.arg.reset

\* the tick falls on the reset weekday at or after the reset hour
ResetTime(nw) ==
    nw.date % 7 = _target_weekday_index /\ nw.minute >= AUTO_RESET_HOUR_ENV * 60

\* C23: a reset runs only at a tick in the reset time whose date has had no
\* reset, and leaves no day stored; the date of the last reset changes with
\* a reset only; every other step of the task keeps the stored days, so
\* what is saved after the day's reset survives its later ticks; and after
\* a tick in the reset time the date has had its reset
C23_WeeklyReset ==
    [][/\ ResetTick => /\ ResetTime(now')
                       /\ cog._last_reset_date # now'.date
                       /\ cog'._last_reset_date = now'.date
                       /\ \A i \in DOMAIN users' : users'[i].days = <<>>
       /\ cog'._last_reset_date # cog._last_reset_date => ResetTick
       /\ /\ lastOp'.op \in {"role_sync_task", "_sync_roles_for_guild"}
          /\ ~ResetTick
          => StoredDays(users') = StoredDays(users)
       /\ SyncTick /\ cog._last_reset_date = now'.date => ~ResetTick
       /\ SyncTick /\ ResetTime(now') => cog'._last_reset_date = now'.date]_vars

\* Monday 08:50: the 08:20 tick ran the reset, member 1 saved monday after
\* it, and the 08:50 tick left it stored
C23_Witness ==
    /\ now = [date |-> 0, minute |-> 8 * 60 + 50]
    /\ cog._last_reset_date = 0
    /\ lastOp.op = "role_sync_task"
    /\ ~lastOp.arg.reset
    /\ get_user_days(users, 1) = <<Monday>>
    /\ get_user_days(users, NumUsers + 1) = <<>>

\* ------------------------------------------------------------------------
\* on_member_update among the commands that fill a record
\* ------------------------------------------------------------------------

\* the role sets the platform reports: team roles and a role that is none
ReportedRoles == SUBSET {RoleA, RoleB} \cup {{AvailRole}}

InitMember ==
    /\ users = <<>>
    /\ cfg = [g \in Guilds |-> NoGuild]
    /\ memberRoles = [u \in Users |-> {}]
    /\ week = NoCall
    /\ prevWeek = NoCall
    /\ lastOp = Op("init", 0, <<>>)
    /\ TaskInit

NextMember ==
    \/ \E team \in TeamInputs : AvailabilitySet(1, RawFri, team)
    \/ \E u \in Users : AgentsSet(u, <<Duelist>>, <<Jett>>)
    \/ \E team_b \in {NoId, RoleB} : ConfigTeamRoles(HomeGuild, RoleA, team_b)
    \/ \E u \in Users, ids \in ReportedRoles : MemberUpdate(u, ids)

SpecMember == InitMember /\ [][NextMember]_vars

\* ------------------------------------------------------------------------
\* C24: when a member's roles change and the member has a stored day, the
\* stored team becomes the team inferred from the current roles, and days,
\* roles and agents stay; when the roles do not change or the member has no
\* stored day, the record is not modified.
\* ------------------------------------------------------------------------

\* A for a holder of the team A role, else B for a holder of the team B
\* role, else none; a role that is not configured is held by nobody
TeamOfRoles(ids) ==
    LET r == get_team_roles(cfg, HomeGuild)
    IN  IF r.A # NoId /\ r.A \in ids THEN TeamA
        ELSE IF r.B # NoId /\ r.B \in ids THEN TeamB
        ELSE None

\* C24: the effect of on_member_update on the record of the member, and on
\* nobody else's
C24_TeamFollowsRoles ==
    [][lastOp'.op = "on_member_update" =>
          LET u      == lastOp'.user
              before == GetEntry(users, u)
              after  == GetEntry(users', u)
          IN  IF memberRoles'[u] # memberRoles[u] /\ before.days # <<>>
              THEN /\ after.team = TeamOfRoles(memberRoles'[u])
                   /\ after.days = before.days
                   /\ after.roles = before.roles
                   /\ after.agents = before.agents
                   /\ \A v \in Users \ {u} : GetEntry(users', v) = GetEntry(users, v)
              ELSE users' = users]_vars

\* member 1 saved friday as team B and set agents, then took the team A
\* role: the record says A with friday, roles and agents as they were
C24_Witness ==
    /\ lastOp = Op("on_member_update", 1, <<>>)
    /\ memberRoles[1] = {RoleA}
    /\ GetEntry(users, 1).team = TeamA
    /\ GetEntry(users, 1).days = <<Friday>>
    /\ GetEntry(users, 1).roles = <<Duelist>>
    /\ GetEntry(users, 1).agents = <<Jett>>
    /\ GetEntry(users, 2).agents = <<Jett>>
    /\ GetEntry(users, 2).days = <<>>

\* ------------------------------------------------------------------------
\* storage.py: GuildConfigStore, the resets, called directly
\* ------------------------------------------------------------------------

reset_scrim_times(c, g) ==
    [_ensure_guild(c, g) EXCEPT ![g] =
        [GuildDict(c, g) EXCEPT !.scrim_times = [d \in WeekDaySet |-> DEFAULT_SCRIM_TIMES[d]]]]

reset_premier_windows(c, g) ==
    [_ensure_guild(c, g) EXCEPT ![g] =
        [GuildDict(c, g) EXCEPT
            !.premier_windows = [d \in WeekDaySet |-> DEFAULT_PREMIER_WINDOWS[d]]]]

reset_practice_times(c, g) ==
    [_ensure_guild(c, g) EXCEPT ![g] =
        [GuildDict(c, g) EXCEPT
            !.practice_times = [d \in WeekDaySet |-> DEFAULT_PRACTICE_TIMES[d]]]]

\* a full reset that writes a fresh entry, maps and lineups included, and
\* keeps the channel only
ResetScheduleAndMaps(c, g) ==
    [_ensure_guild(c, g) EXCEPT ![g] =
        [NewGuild EXCEPT !.announcement_channel_id = GuildDict(c, g).announcement_channel_id]]

reset_entire_schedule(c, g) ==
    [_ensure_guild(c, g) EXCEPT ![g] =
        [GuildDict(c, g) EXCEPT
            !.scrim_times     = [d \in WeekDaySet |-> DEFAULT_SCRIM_TIMES[d]],
            !.premier_windows = [d \in WeekDaySet |-> DEFAULT_PREMIER_WINDOWS[d]],
            !.practice_times  = [d \in WeekDaySet |-> DEFAULT_PRACTICE_TIMES[d]]]]

Resets == {"reset_scrim_times", "reset_premier_windows", "reset_practice_times",
           "reset_entire_schedule"}

\* GuildConfigStore.reset_scrim_times(guild_id) and its three siblings
StoreReset(reset, g) ==
    /\ cfg' = CASE reset = "reset_scrim_times"     -> reset_scrim_times(cfg, g)
                [] reset = "reset_premier_windows" -> reset_premier_windows(cfg, g)
                [] reset = "reset_practice_times"  -> reset_practice_times(cfg, g)
                [] reset = "reset_entire_schedule" -> reset_entire_schedule(cfg, g)
    /\ lastOp' = Op(reset, 0, [guild |-> g])
    /\ UNCHANGED <<users, memberRoles, week, prevWeek>>
    /\ UNCHANGED taskVars

\* guild_config.json as _load finds it for a guild that was configured:
\* a channel, roles, a locked lineup, and monday's times and map set
ConfiguredGuild ==
    [NewGuild EXCEPT !.announcement_channel_id = TextChannel,
                     !.ping_role_id    = AvailRole,
                     !.team_a_role_id  = RoleA,
                     !.team_b_role_id  = RoleB,
                     !.scrim_times[Monday]     = T1830,
                     !.premier_windows[Monday] = W1920,
                     !.practice_times[Monday]  = T1830,
                     !.scrim_maps[Monday]      = <<"Ascent">>,
                     !.opt = {"reminders_enabled"},
                     !.reminders_enabled = FALSE,
                     !.locked_lineups = [k \in {LockKey(Monday, Premier)} |->
                                           <<11, 12, 13, 14, 15>>]]

InitReset ==
    /\ users = <<>>
    /\ cfg \in [Guilds -> {NoGuild, ConfiguredGuild}]
    /\ memberRoles = [u \in Users |-> {}]
    /\ week = NoCall
    /\ prevWeek = NoCall
    /\ lastOp = Op("init", 0, <<>>)
    /\ TaskInit

NextReset ==
    \/ \E reset \in Resets, g \in Guilds : StoreReset(reset, g)
    \/ \E setter \in {"set_scrim_time", "set_premier_window", "set_practice_map"},
          g \in Guilds :
          StoreSetDay(setter, g, Friday, SetterValue(setter))

SpecReset == InitReset /\ [][NextReset]_vars

\* ------------------------------------------------------------------------
\* C25: reset_scrim_times, reset_premier_windows and reset_practice_times
\* restore only their category of guild g to its defaults, and
\* reset_entire_schedule exactly these three; maps, locked lineups, channel
\* and role ids of g and the configuration of every other guild stay.
\* ------------------------------------------------------------------------

\* the time categories a reset restores
Restored(reset) ==
    CASE reset = "reset_scrim_times"     -> {"scrim_times"}
      [] reset = "reset_premier_windows" -> {"premier_windows"}
      [] reset = "reset_practice_times"  -> {"practice_times"}
      [] reset = "reset_entire_schedule" ->
            {"scrim_times", "premier_windows", "practice_times"}

\* the guild's dict with the given categories at their defaults
WithDefaults(e, cats) ==
    [e EXCEPT
       !.scrim_times     = IF "scrim_times" \in cats THEN DEFAULT_SCRIM_TIMES ELSE @,
       !.premier_windows = IF "premier_windows" \in cats THEN DEFAULT_PREMIER_WINDOWS ELSE @,
       !.practice_times  = IF "practice_times" \in cats THEN DEFAULT_PRACTICE_TIMES ELSE @]

\* C25: a reset leaves its guild with what it read there before, but for
\* the restored categories, which hold their defaults, and leaves the other
\* guilds as they are
C25_ResetsOnlyTheirCategory ==
    [][lastOp'.op \in Resets =>
          LET g == lastOp'.arg.guild
          IN  /\ cfg'[g] = WithDefaults(GuildDict(cfg, g), Restored(lastOp'.op))
              /\ \A h \in Guilds \ {g} : cfg'[h] = cfg[h]]_vars

\* reset_entire_schedule on the configured guild 1 after friday's practice
\* map was set: monday's and friday's times are the defaults again, the maps,
\* the locked lineup, the channel and the roles are there, and guild 2 holds
\* its own monday scrim time
C25_Witness ==
    /\ lastOp = Op("reset_entire_schedule", 0, [guild |-> 1])
    /\ cfg[1] # NoGuild /\ cfg[2] # NoGuild
    /\ cfg[1].scrim_times = DEFAULT_SCRIM_TIMES
    /\ cfg[1].premier_windows = DEFAULT_PREMIER_WINDOWS
    /\ cfg[1].practice_times = DEFAULT_PRACTICE_TIMES
    /\ cfg[1].scrim_maps[Monday] = <<"Ascent">>
    /\ cfg[1].practice_maps[Friday] = <<"Ascent">>
    /\ get_locked_lineup(cfg, 1, Monday, Premier) = <<11, 12, 13, 14, 15>>
    /\ cfg[1].announcement_channel_id = TextChannel
    /\ get_team_roles(cfg, 1) = [A |-> RoleA, B |-> RoleB]
    /\ cfg[2].scrim_times[Monday] = T1830

\* ------------------------------------------------------------------------
\* C26: reset_all returns the number of users whose availability was
\* cleared: the number of records that had at least one day stored before
\* the call.
\* ------------------------------------------------------------------------

\* the records that hold a day
WithDays(store) == { k \in DOMAIN store : store[k].days # <<>> }

\* C26: the count /availability resetweek reports is the number of records
\* that held a day when it ran
C26_CountsClearedUsers ==
    [][lastOp'.op = "availability_resetweek" =>
          lastOp'.arg.cleared = Cardinality(WithDays(users))]_vars

\* ------------------------------------------------------------------------
\* build_week on stores whose users signed up in every order of their teams
\* ------------------------------------------------------------------------

\* ten users, enough for two teams of five
TieRoster == 2 * PremierQuorum

\* the teams of the users in the order they were stored: four, five or six
\* of them on Team A, the others on Team B
TeamOrders ==
    { ts \in [1..TieRoster -> {TeamA, TeamB}] :
        Cardinality({ i \in 1..TieRoster : ts[i] = TeamA })
            \in {PremierQuorum - 1, PremierQuorum, PremierQuorum + 1} }

\* _data["users"] after the users signed up for the whole week in that order
SignedUp(ts) == [i \in 1..TieRoster |-> CrowdEntry(NumUsers + i, ts[i])]

InitTie ==
    /\ users \in { SignedUp(ts) : ts \in TeamOrders }
    /\ cfg = [g \in Guilds |-> NoGuild]
    /\ memberRoles = [u \in Users |-> {}]
    /\ week = NoCall
    /\ prevWeek = NoCall
    /\ lastOp = Op("init", 0, <<>>)
    /\ TaskInit

NextTie ==
    \/ \E window \in {TOff, W2021} : ConfigPremierWindow(HomeGuild, RawFri, window, TRUE)
    \/ BuildWeek(HomeGuild, FALSE)

SpecTie == InitTie /\ [][NextTie]_vars

\* ------------------------------------------------------------------------
\* C27: when a premier window is configured and Team A and Team B have
\* equal counts, both >= 5, premier_team is "A", in whatever order the users
\* were stored.
\* ------------------------------------------------------------------------

\* C27: on every day with a window on which the teams are level at 5 or
\* more, build_week names Team A
C27_TieGoesToA ==
    week # NoCall =>
        \A i \in DOMAIN week.result :
            LET s  == week.result[i]
                nA == Cardinality(OnTeam(users, s.day, TeamA))
                nB == Cardinality(OnTeam(users, s.day, TeamB))
            IN  (WeekCfg.premier_windows[s.day] # None /\ nA = nB /\ nA >= 5)
                    => s.premier_team = TeamA

\* build_week ran on a store whose first five users are on Team B and whose
\* last five are on Team A, with a window on friday, and named Team A
C27_Witness ==
    /\ week # NoCall
    /\ \A k \in 1..5 : users[k].team = TeamB /\ users[k + 5].team = TeamA
    /\ Len(users) = 10
    /\ week.result[5].premier_window = W2021
    /\ week.result[5].premier_team = TeamA

\* ------------------------------------------------------------------------
\* storage.py: GameLogStore, called directly
\* ------------------------------------------------------------------------

\* entries a guild's log holds at most in a behaviour
MaxLogs == 3

\* the dates matches are logged for
LogDates == {"2025-11-20", "2025-11-21"}

\* _guild_logs(guild_id) after add_log: the entry with id len(logs) + 1
add_log(lg, g, date_str) ==
    [lg EXCEPT ![g] = Append(@, [id |-> Len(@) + 1, date |-> date_str])]

\* the id add_log returns
add_log_id(lg, g) == Len(lg[g]) + 1

clear_logs_for_date(lg, g, date_str) ==
    [lg EXCEPT ![g] = SelectSeq(@, LAMBDA e : e.date # date_str)]

clear_all_logs(lg, g) == [lg EXCEPT ![g] = <<>>]

logVars == <<users, cfg, memberRoles, week, prevWeek, now, cog, channel>>

\* GameLogStore.add_log(guild_id, entry)
LogAdd(g, date_str) ==
    /\ Len(logs[g]) < MaxLogs
    /\ logs' = add_log(logs, g, date_str)
    /\ lastOp' = Op("add_log", 0, [guild |-> g, id |-> add_log_id(logs, g)])
    /\ UNCHANGED logVars

\* GameLogStore.clear_logs_for_date(guild_id, date_str)
LogClearDate(g, date_str) ==
    /\ logs' = clear_logs_for_date(logs, g, date_str)
    /\ lastOp' = Op("clear_logs_for_date", 0,
                    [guild |-> g, removed |-> Len(logs[g]) - Len(logs'[g])])
    /\ UNCHANGED logVars

\* GameLogStore.clear_all_logs(guild_id)
LogClearAll(g) ==
    /\ logs' = clear_all_logs(logs, g)
    /\ lastOp' = Op("clear_all_logs", 0, [guild |-> g, removed |-> Len(logs[g])])
    /\ UNCHANGED logVars

NextLogs ==
    \/ \E g \in Guilds, date_str \in LogDates : LogAdd(g, date_str)
    \/ \E g \in Guilds, date_str \in LogDates : LogClearDate(g, date_str)
    \/ \E g \in Guilds : LogClearAll(g)

SpecLogs == Init /\ [][NextLogs]_vars

\* ------------------------------------------------------------------------
\* C28: within a guild, after any sequence of add_log, clear_logs_for_date
\* and clear_all_logs, no two stored entries have the same id, and add_log
\* never returns an id a stored entry of the guild already has.
\* ------------------------------------------------------------------------

\* C28: the ids of a guild's entries differ from one another, so the entry
\* add_log has just appended is the only one with the id it returned
C28_UniqueLogIds ==
    \A g \in Guilds :
        \A i, j \in DOMAIN logs[g] : logs[g][i].id = logs[g][j].id => i = j

\* ------------------------------------------------------------------------
\* C29: in build_week a day's lineup_suggestion is non-null exactly when
\* lineup suggestions were requested and total_available >= 5, and every
\* non-null suggestion holds exactly 5 distinct players, all available that
\* day.
\* ------------------------------------------------------------------------

\* the ids of the users who have the day among their days
AvailableIds(store, day) == { store[k].id : k \in AvailableOn(store, day) }

\* C29: a suggestion is there for the days with 5 or more available users of
\* a call that asked for suggestions, and for no other; it names 5 players,
\* no one twice, each available that day, and says it is complete
C29_SuggestionComplete ==
    week # NoCall =>
        \A i \in DOMAIN week.result :
            LET s   == week.result[i]
                sug == s.lineup_suggestion
            IN  /\ sug # NoLineup
                     <=> (week.lineups /\ Cardinality(AvailableOn(users, s.day)) >= 5)
                /\ sug # NoLineup =>
                     /\ Len(sug.players) = 5
                     /\ \A j, k \in DOMAIN sug.players :
                           sug.players[j].user_id = sug.players[k].user_id => j = k
                     /\ \A j \in DOMAIN sug.players :
                           sug.players[j].user_id \in AvailableIds(users, s.day)
                     /\ sug.is_complete

\* a build_week with suggestions on a store where seven are available on
\* friday and six on the other days: every day has a suggestion of 5, and
\* the call before it, without suggestions, had none
C29_Witness ==
    /\ week # NoCall /\ week.lineups
    /\ Cardinality(AvailableOn(users, Friday)) = 7
    /\ Cardinality(AvailableOn(users, Monday)) = 6
    /\ \A i \in DOMAIN week.result : Len(week.result[i].lineup_suggestion.players) = 5
    /\ lastOp.op = "build_week"

\* ------------------------------------------------------------------------
\* The bot process is restarted
\* ------------------------------------------------------------------------

\* _data["users"] after _load of the file the last _persist wrote with
\* sort_keys=True: the same records in the order of their keys
_load(store) ==
    LET keys == SortedStrs({ DecStr(store[k].id) : k \in DOMAIN store })
    IN  [i \in DOMAIN keys |-> GetEntry(store, IntVal(keys[i]))]

\* the process ends at any point and starts again: the stores are read from
\* their files, RoleSyncCog.__init__ builds a new cog and starts the tasks;
\* the clock, the platform's roles and the channels are what they were
Restart ==
    /\ users' = _load(users)
    /\ cog' = NewCog
    /\ week' = NoCall
    /\ prevWeek' = NoCall
    /\ lastOp' = Op("restart", 0, <<>>)
    /\ UNCHANGED <<cfg, memberRoles, now, channel, logs>>

NextRestart ==
    \/ NextSync
    \/ Restart

SpecRestart == InitSync /\ [][NextRestart]_vars

\* ------------------------------------------------------------------------
\* C30: availability saved after the week's automatic reset has run is not
\* cleared by the automatic reset again on the same calendar date, also
\* when the bot process is restarted during that date.
\* ------------------------------------------------------------------------

\* C30: the clock stands at a tick in the reset time, so the date has had
\* its reset; a later tick of the same date leaves the stored days alone
C30_NoSecondReset ==
    [][SyncTick /\ ResetTime(now) /\ now'.date = now.date
          => StoredDays(users') = StoredDays(users)]_vars

====
